---- MODULE Spec2Model ----
(***************************************************************************)
(* Link-metadata engine of linksmash (apps/api): URL routing, platform     *)
(* extractor chains, the default scraper, the Redis cache-aside layer, the *)
(* response formatter and the HTTP controller.                             *)
(*                                                                         *)
(* Text is modelled as a sequence of tokens; the token " " is whitespace.  *)
(* Hostnames and platform patterns are sequences of single characters, so  *)
(* that String.includes is a real substring test.  A JavaScript null is    *)
(* the value Null.                                                         *)
(***************************************************************************)
EXTENDS Integers, Sequences, FiniteSets, TLC

\* ------------------------------------------------------------------ bounds
\* number of requests served in one behaviour
MaxRequests == 2

\* ------------------------------------------------------------------ text
Null == <<"null">>

\* JavaScript truthiness of a string-or-null value
Truthy(s) == s # Null /\ s # <<>>

RECURSIVE TrimStart(_)
TrimStart(s) ==
  IF s = <<>> THEN <<>>
  ELSE IF Head(s) = " " THEN TrimStart(Tail(s)) ELSE s

RECURSIVE TrimEnd(_)
TrimEnd(s) ==
  IF s = <<>> THEN <<>>
  ELSE IF s[Len(s)] = " " THEN TrimEnd(SubSeq(s, 1, Len(s) - 1)) ELSE s

\* String.prototype.trim
Trim(s) == TrimEnd(TrimStart(s))

\* String.prototype.includes / Array subsequence test
Includes(s, pat) ==
  \E i \in 0..(Len(s) - Len(pat)) : SubSeq(s, i + 1, i + Len(pat)) = pat

StartsWith(s, pre) == Len(s) >= Len(pre) /\ SubSeq(s, 1, Len(pre)) = pre

\* ------------------------------------------------------------------ URLs
\* A normalized URL: hostname (characters), path segments, a trailing-slash
\* flag, the "text" query parameter as written in the URL, percent-encoded,
\* one token per word or escape (Null when absent) and the
\* value of a "ref" query parameter, written as the one path segment it
\* holds between slashes: ref = <<"instamart">> is "?ref=/instamart/".
UrlTable ==
  [ yt |-> [host |-> <<"y","o","u","t","u",".","b","e">>,
            path |-> <<"abc123">>, slash |-> FALSE, text |-> Null, ref |-> Null],
    nf |-> [host |-> <<"w","w","w",".","n","e","t","f","l","i","x",".","c","o","m">>,
            path |-> <<"title", "1">>, slash |-> FALSE, text |-> Null, ref |-> Null],
    rdpost |-> [host |-> <<"w","w","w",".","r","e","d","d","i","t",".","c","o","m">>,
            path |-> <<"r", "test", "comments", "1", "title">>, slash |-> TRUE, text |-> Null, ref |-> Null],
    rduser |-> [host |-> <<"w","w","w",".","r","e","d","d","i","t",".","c","o","m">>,
            path |-> <<"user">>, slash |-> FALSE, text |-> Null, ref |-> Null],
    ig |-> [host |-> <<"w","w","w",".","i","n","s","t","a","g","r","a","m",".","c","o","m">>,
            path |-> <<"someone">>, slash |-> TRUE, text |-> Null, ref |-> Null],
    fktext |-> [host |-> <<"w","w","w",".","f","l","i","p","k","a","r","t",".","c","o","m">>,
            path |-> <<"p", "item">>, slash |-> FALSE,
            text |-> <<"I", "%20", "love", "%20", "this", "%20", "Soundbar">>, ref |-> Null],
    fk |-> [host |-> <<"w","w","w",".","f","l","i","p","k","a","r","t",".","c","o","m">>,
            path |-> <<"p", "item">>, slash |-> FALSE, text |-> Null, ref |-> Null],
    bl |-> [host |-> <<"b","l","i","n","k","i","t",".","c","o","m">>,
            path |-> <<"prn", "milk", "prid", "1">>, slash |-> FALSE, text |-> Null, ref |-> Null],
    sw |-> [host |-> <<"s","w","i","g","g","y",".","c","o","m">>,
            path |-> <<"restaurant", "xyz">>, slash |-> FALSE, text |-> Null, ref |-> Null],
    im |-> [host |-> <<"w","w","w",".","s","w","i","g","g","y",".","c","o","m">>,
            path |-> <<"instamart", "store">>, slash |-> FALSE, text |-> Null, ref |-> Null],
    swq |-> [host |-> <<"w","w","w",".","s","w","i","g","g","y",".","c","o","m">>,
            path |-> <<"restaurant", "xyz">>, slash |-> FALSE, text |-> Null,
            ref |-> <<"instamart">>],
    nfroot |-> [host |-> <<"n","e","t","f","l","i","x",".","c","o","m">>,
            path |-> <<>>, slash |-> TRUE, text |-> Null, ref |-> Null],
    amz |-> [host |-> <<"w","w","w",".","a","m","a","z","o","n",".","i","n">>,
            path |-> <<"dp", "B01">>, slash |-> FALSE, text |-> Null, ref |-> Null],
    ex |-> [host |-> <<"e","x","a","m","p","l","e",".","c","o","m">>,
            path |-> <<"a">>, slash |-> FALSE, text |-> Null, ref |-> Null] ]

URLs == DOMAIN UrlTable

\* ------------------------------------------------------------------ platform detection
\* new URL(url).hostname.toLowerCase() with a leading "www." removed
extractHostname(u) ==
  LET h == UrlTable[u].host
  IN IF StartsWith(h, <<"w","w","w",".">>) THEN SubSeq(h, 5, Len(h)) ELSE h

platformPatterns ==
  <<
    [platform |-> "youtube", patterns |-> <<<<"y","o","u","t","u","b","e",".","c","o","m">>, <<"y","o","u","t","u",".","b","e">>>>],
    [platform |-> "spotify", patterns |-> <<<<"s","p","o","t","i","f","y",".","c","o","m">>>>],
    [platform |-> "instagram", patterns |-> <<<<"i","n","s","t","a","g","r","a","m",".","c","o","m">>>>],
    [platform |-> "facebook", patterns |-> <<<<"f","a","c","e","b","o","o","k",".","c","o","m">>, <<"f","b",".","c","o","m">>>>],
    [platform |-> "twitter", patterns |-> <<<<"t","w","i","t","t","e","r",".","c","o","m">>, <<"x",".","c","o","m">>>>],
    [platform |-> "reddit", patterns |-> <<<<"r","e","d","d","i","t",".","c","o","m">>>>],
    [platform |-> "flipkart", patterns |-> <<<<"f","l","i","p","k","a","r","t",".","c","o","m">>>>],
    [platform |-> "blinkit", patterns |-> <<<<"b","l","i","n","k","i","t",".","c","o","m">>>>],
    [platform |-> "swiggy", patterns |-> <<<<"s","w","i","g","g","y",".","c","o","m">>>>],
    [platform |-> "instamart", patterns |-> <<<<"s","w","i","g","g","y",".","c","o","m">>>>],
    [platform |-> "zepto", patterns |-> <<<<"z","e","p","t","o",".","c","o","m">>>>],
    [platform |-> "amazon", patterns |-> <<<<"a","m","a","z","o","n",".","c","o","m">>, <<"a","m","a","z","o","n",".","i","n">>, <<"a","m","a","z","o","n",".","c","o",".","u","k">>>>],
    [platform |-> "linkedin", patterns |-> <<<<"l","i","n","k","e","d","i","n",".","c","o","m">>>>],
    [platform |-> "netflix", patterns |-> <<<<"n","e","t","f","l","i","x",".","c","o","m">>>>],
    [platform |-> "dealshare", patterns |-> <<<<"d","e","a","l","s","h","a","r","e",".","i","n">>>>],
    [platform |-> "google news", patterns |-> <<<<"n","e","w","s",".","g","o","o","g","l","e",".","c","o","m">>>>],
    [platform |-> "chrome", patterns |-> <<<<"c","h","r","o","m","e",".","g","o","o","g","l","e",".","c","o","m">>>>],
    [platform |-> "firefox", patterns |-> <<<<"m","o","z","i","l","l","a",".","o","r","g">>, <<"f","i","r","e","f","o","x",".","c","o","m">>>>],
    [platform |-> "safari", patterns |-> <<<<"a","p","p","l","e",".","c","o","m">>>>]
  >>

\* the pathname contains "/instamart/": the segment is followed by a slash
PathHasInstamart(u) ==
  LET p == UrlTable[u].path
  IN \E i \in 1..Len(p) :
       p[i] = "instamart" /\ (i < Len(p) \/ UrlTable[u].slash)

\* url.includes("/instamart/"): anywhere in the URL string, query included
HasInstamartSegment(u) ==
  PathHasInstamart(u) \/ UrlTable[u].ref = <<"instamart">>

\* does entry i of the pattern table match the hostname
PatternMatches(i, hostname) ==
  \E j \in 1..Len(platformPatterns[i].patterns) :
    Includes(hostname, platformPatterns[i].patterns[j])

\* first table entry whose pattern the hostname includes; "none" for null
detectPlatform(u) ==
  LET hostname == extractHostname(u)
      hits == {i \in 1..Len(platformPatterns) : PatternMatches(i, hostname)}
  IN IF hits = {} THEN "none"
     ELSE LET first == CHOOSE i \in hits : \A k \in hits : i <= k
              platform == platformPatterns[first].platform
          IN IF platform = "swiggy" /\ HasInstamartSegment(u)
             THEN "instamart" ELSE platform

isPlatform(u, platform) == detectPlatform(u) = platform

\* ------------------------------------------------------------------ registry
\* platform -> extractor registered by the PlatformExtractorRegistry
\* constructor; "zepto" is registered too but its extractor is not modelled
Registered ==
  [ youtube |-> "oembed:youtube", spotify |-> "oembed:spotify",
    twitter |-> "oembed:twitter", instagram |-> "instagram",
    facebook |-> "facebook", reddit |-> "reddit", flipkart |-> "flipkart",
    blinkit |-> "blinkit", swiggy |-> "swiggy", instamart |-> "swiggy",
    netflix |-> "blocked" ]

\* canHandle of each extractor
canHandle(e, u) ==
  LET h == UrlTable[u].host
  IN CASE e = "oembed:youtube" ->
            \/ Includes(h, <<"y","o","u","t","u","b","e",".","c","o","m">>)
            \/ Includes(h, <<"y","o","u","t","u",".","b","e">>)
       [] e = "oembed:spotify" ->
            Includes(h, <<"s","p","o","t","i","f","y",".","c","o","m">>)
       [] e = "oembed:twitter" ->
            \/ Includes(h, <<"t","w","i","t","t","e","r",".","c","o","m">>)
            \/ Includes(h, <<"x",".","c","o","m">>)
       [] e = "instagram" -> isPlatform(u, "instagram")
       [] e = "facebook" -> isPlatform(u, "facebook")
       [] e = "reddit" -> isPlatform(u, "reddit")
       [] e = "flipkart" -> isPlatform(u, "flipkart")
       [] e = "blinkit" -> isPlatform(u, "blinkit")
       [] e = "swiggy" -> isPlatform(u, "swiggy") \/ isPlatform(u, "instamart")
       [] e = "blocked" -> isPlatform(u, "netflix")
       [] OTHER -> TRUE

\* getExtractor with the canHandle test negated
getExtractor_inverted(u) ==
  LET platform == detectPlatform(u)
  IN IF platform = "none" THEN "default"
     ELSE IF platform \in DOMAIN Registered /\ ~canHandle(Registered[platform], u)
          THEN Registered[platform]
          ELSE "default"

getExtractor(u) ==
  LET platform == detectPlatform(u)
  IN IF platform = "none" THEN "default"
     ELSE IF platform \in DOMAIN Registered /\ canHandle(Registered[platform], u)
          THEN Registered[platform]
          ELSE "default"

getExtractorForUrl(u) == getExtractor(u)

\* ------------------------------------------------------------------ ParsedMetadata
Md(t, d, i, u) == [title |-> t, description |-> d, image |-> i, url |-> u]

\* the URL string of URL u, as text
UrlText(u) == <<u>>

\* BaseExtractor.createDefaultMetadata
createDefaultMetadata(u) == Md(Null, Null, Null, UrlText(u))

\* BaseExtractor.isValidMetadata dropping the trim: any truthy field counts
isValidMetadata_notrim(m) ==
  Truthy(m.title) \/ Truthy(m.description) \/ Truthy(m.image)

\* BaseExtractor.isValidMetadata
isValidMetadata(m) ==
  \/ (Truthy(m.title) /\ Truthy(Trim(m.title)))
  \/ (Truthy(m.description) /\ Truthy(Trim(m.description)))
  \/ (Truthy(m.image) /\ Truthy(Trim(m.image)))

\* .replace(/\b\w/g, l => l.toUpperCase()) on one path segment
Capitalize(seg) ==
  CASE seg = "title" -> "Title"
    [] seg = "milk" -> "Milk"
    [] seg = "store" -> "Store"
    [] seg = "item" -> "Item"
    [] seg = "user" -> "User"
    [] seg = "someone" -> "Someone"
    [] OTHER -> seg

\* pathParts.join(" ") followed by the capitalisation
RECURSIVE JoinCapitalized(_)
JoinCapitalized(parts) ==
  IF parts = <<>> THEN <<>>
  ELSE IF Len(parts) = 1 THEN <<Capitalize(parts[1])>>
  ELSE <<Capitalize(parts[1]), " ">> \o JoinCapitalized(Tail(parts))

\* Array.prototype.indexOf, 1-based; 0 when absent
IndexOf(parts, seg) ==
  IF \E i \in 1..Len(parts) : parts[i] = seg
  THEN CHOOSE i \in 1..Len(parts) :
         parts[i] = seg /\ \A k \in 1..(i - 1) : parts[k] # seg
  ELSE 0

\* percent-decoding of one token
DecodeToken(t) ==
  CASE t = "%20" -> " "
    [] t = "%25" -> "%"
    [] OTHER -> t

\* urlObj.searchParams.get("q"): a parameter the URL does not carry
textParam_q(u) == Null

\* urlObj.searchParams.get("text"): the parameter, percent-decoded
textParam(u) ==
  IF UrlTable[u].text = Null THEN Null
  ELSE [i \in 1..Len(UrlTable[u].text) |-> DecodeToken(UrlTable[u].text[i])]

\* decodeURIComponent: throws URIError on a "%" that starts no escape
decodeURIComponent(s) ==
  IF \E i \in 1..Len(s) : s[i] = "%"
  THEN [raised |-> TRUE, val |-> Null]
  ELSE [raised |-> FALSE, val |-> [i \in 1..Len(s) |-> DecodeToken(s[i])]]

\* extractFromUrl of each extractor (URL-structure inference)
extractFromUrl(e, u) ==
  LET p == UrlTable[u].path
  IN CASE e = "reddit" ->
            LET r == IndexOf(p, "r")
            IN IF r # 0 /\ Len(p) >= r + 1
               THEN LET t == IF Len(p) > r + 2
                             THEN JoinCapitalized(SubSeq(p, r + 3, Len(p)))
                             ELSE Null
                    IN Md(IF Truthy(t) THEN t ELSE <<"r/", p[r + 1]>>,
                          <<"Post from r/", p[r + 1]>>, Null, UrlText(u))
               ELSE createDefaultMetadata(u)
       [] e = "instagram" ->
            IF Len(p) >= 2
            THEN Md(CASE p[1] = "p" -> <<"Instagram Post">>
                      [] p[1] = "reel" -> <<"Instagram Reel">>
                      [] p[1] = "tv" -> <<"Instagram TV">>
                      [] OTHER -> <<"Instagram Content">>,
                    Null, Null, UrlText(u))
            ELSE createDefaultMetadata(u)
       [] e = "facebook" ->
            IF Len(p) > 0
            THEN Md(CASE p[1] = "pages" /\ Len(p) > 1 -> <<"Facebook Page">>
                      [] p[1] = "groups" /\ Len(p) > 1 -> <<"Facebook Group">>
                      [] p[1] = "events" /\ Len(p) > 1 -> <<"Facebook Event">>
                      [] Len(p) >= 2 /\ p[2] = "posts" -> <<"Facebook Post">>
                      [] OTHER -> <<Capitalize(p[1])>>,
                    Null, Null, UrlText(u))
            ELSE createDefaultMetadata(u)
       [] e = "flipkart" ->
            LET decoded == decodeURIComponent(textParam(u))
            IN IF Truthy(textParam(u)) /\ ~decoded.raised
               THEN Md(IF Truthy(decoded.val) THEN decoded.val ELSE Null,
                       Null, Null, UrlText(u))
               ELSE createDefaultMetadata(u)
       [] e = "blinkit" ->
            LET i == IndexOf(p, "prn")
            IN IF i # 0 /\ Len(p) >= i + 1
               THEN Md(<<Capitalize(p[i + 1])>>, Null, Null, UrlText(u))
               ELSE createDefaultMetadata(u)
       [] e = "swiggy" ->
            IF IndexOf(p, "item") # 0
            THEN Md(<<"Instamart Item">>, Null, Null, UrlText(u))
            ELSE createDefaultMetadata(u)
       [] e = "blocked" ->
            IF Len(p) > 0
            THEN Md(<<Capitalize(p[Len(p)])>>, <<"Content from Netflix">>,
                    <<"Netflix_icon.png">>, UrlText(u))
            ELSE Md(<<"Netflix Content">>, <<"Content from Netflix">>,
                    <<"Netflix_icon.png">>, UrlText(u))
       [] OTHER -> createDefaultMetadata(u)

\* BlockedExtractor.getMinimalMetadata
getMinimalMetadata(u) ==
  Md(<<"Netflix Content">>, <<"Content from Netflix">>,
     <<"Netflix_icon.png">>, UrlText(u))

\* ------------------------------------------------------------------ HTML parser
\* A fetched page, as the selectors of og-parser.ts see it.  An attribute
\* is Null when its element or the attribute is missing; texts are token
\* sequences; element lists are in document order.
\*   h1, aria: the texts of the matching elements; headings[l]: those of
\*   the <h(l)> elements; paragraphs: [area, text], area being the selector
\*   that first matches the <p> ("main", "article", "section", "body", or
\*   "other"); images: the <img> elements of the body.
EmptyDoc ==
  [ogTitle |-> Null, ogTitleName |-> Null, titleTag |-> <<>>, h1 |-> <<>>,
   metaTitle |-> Null, headings |-> [l \in 2..6 |-> <<>>],
   ogDesc |-> Null, ogDescName |-> Null, metaDesc |-> Null,
   paragraphs |-> <<>>, keywords |-> Null, aria |-> <<>>,
   ogImage |-> Null, ogImageName |-> Null, images |-> <<>>,
   ogUrl |-> Null, ogUrlName |-> Null]

\* a || b on attribute values
OrElse(a, b) == IF Truthy(a) THEN a ELSE b

\* .first().text() of a selection ("" when nothing matches)
FirstText(els) == IF els = <<>> THEN <<>> ELSE els[1]

\* number of characters of a token (words stand for texts of that length)
TokenChars(t) ==
  CASE t \in {"p50", "home50", "main50"} -> 50
    [] t = "p49" -> 49
    [] t = "t20" -> 20
    [] t = "t19" -> 19
    [] t = "a30" -> 30
    [] t = "a29" -> 29
    [] t = " " -> 1
    [] OTHER -> 2

RECURSIVE CharLen(_)
CharLen(s) == IF s = <<>> THEN 0 ELSE TokenChars(Head(s)) + CharLen(Tail(s))

\* sanitizeText: runs of white space become one blank, then trim
RECURSIVE Collapse(_)
Collapse(s) ==
  IF Len(s) < 2 THEN s
  ELSE IF s[1] = " " /\ s[2] = " " THEN Collapse(Tail(s))
  ELSE <<s[1]>> \o Collapse(Tail(s))

sanitizeText(s) == Trim(Collapse(s))

\* extractTitle
extractTitle(doc) ==
  LET ogTitle == OrElse(doc.ogTitle, doc.ogTitleName)
      titleTag == Trim(doc.titleTag)
      h1 == Trim(FirstText(doc.h1))
      level(l) == Trim(FirstText(doc.headings[l]))
  IN IF Truthy(ogTitle) /\ Truthy(Trim(ogTitle)) THEN Trim(ogTitle)
     ELSE IF Truthy(titleTag) THEN titleTag
     ELSE IF Truthy(h1) THEN h1
     ELSE IF Truthy(doc.metaTitle) /\ Truthy(Trim(doc.metaTitle))
          THEN Trim(doc.metaTitle)
     ELSE IF \E l \in 2..6 : Truthy(level(l))
          THEN level(CHOOSE l \in 2..6 :
                       Truthy(level(l)) /\ \A k \in 2..(l - 1) : ~Truthy(level(k)))
     ELSE Null

MIN_PARAGRAPH == 50
MIN_TITLE_AS_DESCRIPTION == 20
MIN_ARIA_LABEL == 30

\* isNavText: the lower-cased text contains a navigation keyword
isNavText(text) == \E i \in 1..Len(text) : text[i] \in {"home50", "menu", "skip to"}

\* the paragraph passes findMeaningfulParagraph's test
Meaningful(text) == CharLen(Trim(text)) >= MIN_PARAGRAPH /\ ~isNavText(Trim(text))

\* the selectors tried in turn; a <p> directly under <body> matches
\* "body > p", every <p> matches the final "p"
ContentAreas == <<"main", "article", "section", "body">>

\* findMeaningfulParagraph
findMeaningfulParagraph(doc) ==
  LET ps == doc.paragraphs
      hits(a) == {i \in 1..Len(ps) : ps[i].area = a /\ Meaningful(ps[i].text)}
      any == {i \in 1..Len(ps) : Meaningful(ps[i].text)}
      first(S) == CHOOSE i \in S : \A k \in S : i <= k
  IN IF \E n \in 1..4 : hits(ContentAreas[n]) # {}
     THEN LET n == CHOOSE n \in 1..4 :
                     hits(ContentAreas[n]) # {}
                       /\ \A k \in 1..(n - 1) : hits(ContentAreas[k]) = {}
          IN Trim(ps[first(hits(ContentAreas[n]))].text)
     ELSE IF any # {} THEN Trim(ps[first(any)].text)
     ELSE Null

\* extractAriaLabel
extractAriaLabel(doc) ==
  LET ok == {i \in 1..Len(doc.aria) :
               Truthy(doc.aria[i]) /\ CharLen(Trim(doc.aria[i])) >= MIN_ARIA_LABEL}
  IN IF ok = {} THEN Null
     ELSE Trim(doc.aria[CHOOSE i \in ok : \A k \in ok : i <= k])

\* extractDescription trying the keywords before the paragraphs
extractDescription_keywordsfirst(doc) ==
  LET ogDescription == OrElse(doc.ogDesc, doc.ogDescName)
      paragraph == findMeaningfulParagraph(doc)
      titleTag == Trim(doc.titleTag)
      ariaLabel == extractAriaLabel(doc)
  IN IF Truthy(ogDescription) /\ Truthy(Trim(ogDescription)) THEN Trim(ogDescription)
     ELSE IF Truthy(doc.metaDesc) /\ Truthy(Trim(doc.metaDesc)) THEN Trim(doc.metaDesc)
     ELSE IF Truthy(doc.keywords) /\ Truthy(Trim(doc.keywords)) THEN Trim(doc.keywords)
     ELSE IF Truthy(paragraph) THEN paragraph
     ELSE IF Truthy(titleTag) /\ CharLen(titleTag) >= MIN_TITLE_AS_DESCRIPTION
          THEN titleTag
     ELSE IF Truthy(ariaLabel) THEN ariaLabel
     ELSE Null

\* extractDescription
extractDescription(doc) ==
  LET ogDescription == OrElse(doc.ogDesc, doc.ogDescName)
      paragraph == findMeaningfulParagraph(doc)
      titleTag == Trim(doc.titleTag)
      ariaLabel == extractAriaLabel(doc)
  IN IF Truthy(ogDescription) /\ Truthy(Trim(ogDescription)) THEN Trim(ogDescription)
     ELSE IF Truthy(doc.metaDesc) /\ Truthy(Trim(doc.metaDesc)) THEN Trim(doc.metaDesc)
     ELSE IF Truthy(paragraph) THEN paragraph
     ELSE IF Truthy(doc.keywords) /\ Truthy(Trim(doc.keywords)) THEN Trim(doc.keywords)
     ELSE IF Truthy(titleTag) /\ CharLen(titleTag) >= MIN_TITLE_AS_DESCRIPTION
          THEN titleTag
     ELSE IF Truthy(ariaLabel) THEN ariaLabel
     ELSE Null

\* URL texts: an absolute URL starts with a scheme token followed by at
\* least a host; "//" starts a protocol-relative and "/" a root-relative
\* reference; anything else is relative to the base's directory.
Schemes == {"https://", "http://"}

\* new URL(relativeUrl, baseUrl).href, or relativeUrl when that throws
\* (the base is the URL u; its host is written as the token u)
resolveUrl(rel, u) ==
  IF rel = <<>> THEN <<"https://", u, "/">>
  ELSE IF rel[1] \in Schemes THEN rel
  ELSE IF rel[1] = "//" THEN <<"https://">> \o Tail(rel)
  ELSE IF rel[1] = "/" THEN <<"https://", u>> \o rel
  ELSE <<"https://", u, "/">> \o rel

\* String.prototype.toLowerCase on the attribute words that occur
ToLower(t) ==
  CASE t = "LOGO" -> "logo"
    [] t = "Icon" -> "icon"
    [] OTHER -> t

LowerCase(s) == [i \in 1..Len(s) |-> ToLower(s[i])]

\* attr(name) || "" of an <img>
AttrOrEmpty(a) == IF Truthy(a) THEN a ELSE <<>>

LOGO_SIZE == 200

\* isLikelyLogo (width and height are parseInt(attr || "0"))
isLikelyLogo(img) ==
  LET src == LowerCase(AttrOrEmpty(img.src))
      words == LowerCase(AttrOrEmpty(img.class)) \o <<"|">>
                 \o LowerCase(AttrOrEmpty(img.id)) \o <<"|">>
                 \o LowerCase(AttrOrEmpty(img.alt))
  IN \/ \E k \in {"logo", "brand", "icon", "favicon"} : Includes(words, <<k>>)
     \/ \E p \in {<<"/", "favicon">>, <<"icon", ".">>, <<"logo", ".">>,
                  <<"brand", ".">>, <<".", "ico">>, <<"apple-touch-icon">>} :
          Includes(src, p)
     \/ \E i \in 1..Len(img.ancestors) :
          img.ancestors[i] \in {"header", "footer", "nav", "navigation"}
     \/ (img.width > 0 /\ img.height > 0
           /\ (img.width < LOGO_SIZE \/ img.height < LOGO_SIZE))

\* the score findMeaningfulImage gives the i-th image (i counted from 0)
ImageScore(img, i) ==
  IF img.width > 0 /\ img.height > 0 THEN img.width * img.height
  ELSE 10000 - i * 10

\* findMeaningfulImage: the index of the image chosen, 0 when there is none
BestImage(doc) ==
  LET imgs == doc.images
      valid == {i \in 1..Len(imgs) :
                  ~isLikelyLogo(imgs[i])
                    /\ Truthy(OrElse(imgs[i].src, imgs[i].dataSrc))}
      better(i, k) ==
        \/ ImageScore(imgs[i], i - 1) > ImageScore(imgs[k], k - 1)
        \/ ImageScore(imgs[i], i - 1) = ImageScore(imgs[k], k - 1) /\ i <= k
  IN IF valid = {} THEN 0
     ELSE CHOOSE i \in valid : \A k \in valid : better(i, k)

findMeaningfulImage(doc, u) ==
  IF BestImage(doc) = 0 THEN Null
  ELSE LET img == doc.images[BestImage(doc)]
       IN resolveUrl(OrElse(img.src, img.dataSrc), u)

\* extractImage
extractImage(doc, u) ==
  LET ogImage == OrElse(doc.ogImage, doc.ogImageName)
  IN IF Truthy(ogImage) /\ Truthy(Trim(ogImage)) THEN resolveUrl(Trim(ogImage), u)
     ELSE findMeaningfulImage(doc, u)

\* parseOpenGraphTags leaving url null when the page has no og:url
parseDocument_nourl(doc, u) ==
  LET title == extractTitle(doc)
      description == extractDescription(doc)
      ogUrl == OrElse(OrElse(doc.ogUrl, doc.ogUrlName), Null)
  IN Md(IF Truthy(title) THEN sanitizeText(title) ELSE Null,
        IF Truthy(description) THEN sanitizeText(description) ELSE Null,
        extractImage(doc, u),
        IF Truthy(ogUrl) THEN ogUrl ELSE Null)

\* parseOpenGraphTags over a loaded document, u being the base URL
parseDocument(doc, u) ==
  LET title == extractTitle(doc)
      description == extractDescription(doc)
      ogUrl == OrElse(OrElse(doc.ogUrl, doc.ogUrlName), Null)
  IN Md(IF Truthy(title) THEN sanitizeText(title) ELSE Null,
        IF Truthy(description) THEN sanitizeText(description) ELSE Null,
        extractImage(doc, u),
        IF Truthy(ogUrl) THEN ogUrl ELSE UrlText(u))

\* the page an upstream serves for URL u under behaviour o
PageServed(u, o) ==
  IF o = "ok_meta" THEN [EmptyDoc EXCEPT !.ogTitle = <<"page:", u>>]
  ELSE EmptyDoc

\* ------------------------------------------------------------------ upstream
\* What an upstream endpoint does for a URL.  "hang" never answers;
\* "body_stall" sends response headers and then never finishes the body.
OpKinds == {"page", "html", "oembed", "json"}

Outcomes ==
  [ page   |-> {"ok_meta", "ok_none", "http_err", "net_err", "hang",
                "empty_body", "body_stall"},
    html   |-> {"ok_meta", "ok_none", "ok_blank", "ok_desc", "ok_generic",
                "ok_generic_h1", "ok_generic_h1same", "http_err", "hang"},
    oembed |-> {"ok_meta", "ok_none", "ok_blank", "http_err", "net_err", "hang"},
    json   |-> {"ok_post", "ok_blankpost", "ok_nochildren", "http_err", "hang"} ]

\* error messages, as word sequences
ScrapeHttpError == <<"HTTP", "request", "failed", "with", "status", "404">>
ScrapeTimeoutError == <<"Request", "timed", "out", ".", "Please", "check">>
ScrapeFetchError == <<"Failed", "to", "fetch", "URL", ":", "fetch", "failed">>
ScrapeEmptyError == <<"Empty", "response", "from", "server">>
PlatformHttpError == <<"HTTP", "404">>
FetchFailed == <<"fetch", "failed">>
OEmbedStatusError == <<"oEmbed", "API", "returned", "status", "404">>
OEmbedWrap(inner) == <<"Failed", "to", "fetch", "oEmbed", "data", "for", ":">> \o inner

NoErr == <<>>
Ok(m) == [ok |-> TRUE, md |-> m, err |-> NoErr]
Fail(e) == [ok |-> FALSE, md |-> Md(Null, Null, Null, Null), err |-> e]

\* parseOpenGraphTags over the fetched page, by what the page contains
parseOpenGraphTags(u, o) == parseDocument(PageServed(u, o), u)

\* scrapeMetadata: the result of the default page fetch for each upstream
\* behaviour that lets it finish (AbortError when the timer fired)
scrapeMetadata(u, o) ==
  CASE o = "http_err" -> Fail(ScrapeHttpError)
    [] o = "net_err" -> Fail(ScrapeFetchError)
    [] o = "hang" -> Fail(ScrapeTimeoutError)
    [] o = "empty_body" -> Fail(ScrapeEmptyError)
    [] OTHER -> Ok(parseOpenGraphTags(u, o))

\* the title Reddit serves on its landing and interstitial pages
GenericRedditTitle == <<"Reddit - The heart of the internet">>

\* pages carrying that title: without an h1, with an h1 of their own, with
\* an h1 repeating the title
GenericOutcomes == {"ok_generic", "ok_generic_h1", "ok_generic_h1same"}

\* extractFromHtml of each platform extractor over its own HTML fetch
extractFromHtml(e, u, o) ==
  LET ogTitle == CASE o = "ok_meta" -> <<"og:", u>>
                   [] o = "ok_blank" -> <<" ">>
                   [] o \in GenericOutcomes -> GenericRedditTitle
                   [] OTHER -> Null
      \* $("h1").first().text().trim()
      h1 == CASE o = "ok_generic_h1" -> <<"h1:", u>>
              [] o = "ok_generic_h1same" -> GenericRedditTitle
              [] OTHER -> <<>>
      ogDesc == IF o = "ok_desc" THEN <<"desc:", u>> ELSE Null
  IN CASE e = "reddit" ->
            LET um == extractFromUrl("reddit", u)
                title == IF Truthy(ogTitle) /\ ogTitle = GenericRedditTitle
                         THEN IF Truthy(h1) THEN h1
                              ELSE IF Truthy(um.title) /\ um.title # <<"Reddit Content">>
                                   THEN um.title ELSE ogTitle
                         ELSE ogTitle
            IN Md(title, ogDesc, Null, UrlText(u))
       [] e = "swiggy" ->
            Md(IF Truthy(ogTitle) THEN ogTitle
               ELSE IF Truthy(h1) THEN h1
               ELSE IF HasInstamartSegment(u) THEN <<"Instamart Item">>
               ELSE <<"Swiggy Restaurant">>, ogDesc, Null, UrlText(u))
       [] e = "instagram" ->
            \* without og:title the caption/title text is used: "" when absent
            Md(IF Truthy(ogTitle)
               THEN (IF Trim(ogTitle) = <<>> THEN Null ELSE Trim(ogTitle))
               ELSE <<>>, ogDesc, Null, UrlText(u))
       [] e \in {"flipkart", "blinkit"} ->
            Md(IF Truthy(ogTitle) THEN ogTitle
               ELSE IF Truthy(h1) THEN h1 ELSE Null, ogDesc, Null, UrlText(u))
       [] OTHER -> Md(ogTitle, ogDesc, Null, UrlText(u))

\* fetchHtml of a platform extractor followed by extractFromHtml
platformHtml(e, u, o) ==
  IF o = "http_err" THEN Fail(PlatformHttpError) ELSE Ok(extractFromHtml(e, u, o))

\* OEmbedExtractor.parseOEmbedResponse with buildDescription
parseOEmbedResponse(u, o) ==
  CASE o = "ok_meta" -> Md(<<"oembed:", u>>, <<"By", " ", "author">>, Null, UrlText(u))
    [] o = "ok_blank" -> Md(<<" ">>, Null, Null, UrlText(u))
    [] OTHER -> Md(Null, Null, Null, UrlText(u))

\* the fetch and parse inside OEmbedExtractor.extract's try block
oembedCall(u, o) ==
  CASE o = "http_err" -> Fail(OEmbedStatusError)
    [] o = "net_err" -> Fail(FetchFailed)
    [] OTHER -> Ok(parseOEmbedResponse(u, o))

\* RedditExtractor.parseRedditPost
parseRedditPost(u, o) ==
  IF o = "ok_post"
  THEN Md(<<"r/test:", " ", "post">>, <<"Posted by u/", "a">>, Null, UrlText(u))
  ELSE Md(Null, Null, Null, UrlText(u))

\* the Reddit JSON call: hasPost tells whether a post was returned
redditJson(u, o) ==
  [hasPost |-> o \in {"ok_post", "ok_blankpost"}, md |-> parseRedditPost(u, o)]

\* ------------------------------------------------------------------ cache service
\* the Redis reply "no such key", and getCachedMetadata's null
Nil == <<"nil">>
Miss == [title |-> <<"miss">>, description |-> Null, image |-> Null, url |-> Null]

\* CACHE_TTL, seconds
CACHE_TTL == 86400

\* getCacheKey: the namespace prefix followed by the base64url of the URL
\* (a reversible encoding, kept as the encoded URL itself)
getCacheKey(u) == <<"metadata:", u>>

CacheKeys == {getCacheKey(u) : u \in URLs}

\* JSON.stringify / JSON.parse of a ParsedMetadata: an ordered member list
\* JSON.stringify writing a null field as the empty string
Serialize_emptynull(m) ==
  << <<"title", IF m.title = Null THEN <<>> ELSE m.title>>,
     <<"description", IF m.description = Null THEN <<>> ELSE m.description>>,
     <<"image", IF m.image = Null THEN <<>> ELSE m.image>>,
     <<"url", m.url>> >>

Serialize(m) ==
  << <<"title", m.title>>, <<"description", m.description>>,
     <<"image", m.image>>, <<"url", m.url>> >>

Member(j, name) == (CHOOSE i \in 1..Len(j) : j[i][1] = name)

\* JSON.parse handing back title and description in each other's place
Deserialize_swapped(j) ==
  [title |-> j[Member(j, "description")][2],
   description |-> j[Member(j, "title")][2],
   image |-> j[Member(j, "image")][2],
   url |-> j[Member(j, "url")][2]]

Deserialize(j) ==
  [title |-> j[Member(j, "title")][2],
   description |-> j[Member(j, "description")][2],
   image |-> j[Member(j, "image")][2],
   url |-> j[Member(j, "url")][2]]

\* isCacheAvailable: redisClient !== null && redisClient.status === "ready"
isCacheAvailable(client) == client = "ready"

\* Replies the backend can give to GET: the stored string, Nil, a command
\* error (connection lost, closed, timeout) or a string that is not JSON.
GetReplies(client, st, key) ==
  {[kind |-> "error", val |-> Nil]}
    \cup (IF client = "ready"
          THEN {[kind |-> "value", val |-> st[key]]}
                 \cup (IF st[key] # Nil THEN {[kind |-> "garbled", val |-> Nil]} ELSE {})
          ELSE {})

\* Outcomes of SETEX (and of the JSON.stringify before it)
SetOutcomes(client) ==
  {"error", "stringify_error"} \cup (IF client = "ready" THEN {"ok"} ELSE {})

\* getCachedMetadata with its catch block removed
getCachedMetadata_nocatch(client, reply) ==
  IF client = "null" THEN [raised |-> FALSE, value |-> Miss]
  ELSE IF reply.kind \in {"error", "garbled"} THEN [raised |-> TRUE, value |-> Miss]
  ELSE IF reply.val # Nil THEN [raised |-> FALSE, value |-> Deserialize(reply.val)]
  ELSE [raised |-> FALSE, value |-> Miss]

\* getCachedMetadata: null client -> null; try { GET; JSON.parse } catch -> null
getCachedMetadata(client, reply) ==
  IF client = "null" THEN [raised |-> FALSE, value |-> Miss]
  ELSE LET threw == reply.kind \in {"error", "garbled"}
       IN IF threw THEN [raised |-> FALSE, value |-> Miss]
          ELSE IF reply.val # Nil
               THEN [raised |-> FALSE, value |-> Deserialize(reply.val)]
               ELSE [raised |-> FALSE, value |-> Miss]

\* setCachedMetadata: null client -> return; try { SETEX key TTL json } catch {}
\* "st" is the store afterwards
setCachedMetadata(client, st, u, m, outcome) ==
  IF client = "null" THEN [raised |-> FALSE, st |-> st]
  ELSE IF outcome = "ok"
       THEN [raised |-> FALSE,
             st |-> [st EXCEPT ![getCacheKey(u)] = Serialize(m)]]
       ELSE [raised |-> FALSE, st |-> st]

\* ------------------------------------------------------------------ response formatter
\* detectTag: first label of the hostname without "www."
RECURSIVE FirstLabel(_)
FirstLabel(h) ==
  IF h = <<>> \/ Head(h) = "." THEN <<>>
  ELSE <<Head(h)>> \o FirstLabel(Tail(h))

detectTag(u) == FirstLabel(extractHostname(u))

\* the client's detectHostnameTag (services/hostnameTagDetection.ts)
\* POPULAR_HOSTNAMES, in the order the object literal lists its keys
POPULAR_HOSTNAMES ==
  <<
     [key |-> <<"b","l","i","n","k","i","t">>,
      tag |-> <<"b","l","i","n","k","i","t">>],
     [key |-> <<"b","l","i","n","k","i","t",".","c","o","m">>,
      tag |-> <<"b","l","i","n","k","i","t">>],
     [key |-> <<"s","w","i","g","g","y">>,
      tag |-> <<"s","w","i","g","g","y">>],
     [key |-> <<"s","w","i","g","g","y",".","c","o","m">>,
      tag |-> <<"s","w","i","g","g","y">>],
     [key |-> <<"i","n","s","t","a","m","a","r","t">>,
      tag |-> <<"i","n","s","t","a","m","a","r","t">>],
     [key |-> <<"i","n","s","t","a","m","a","r","t",".","c","o","m">>,
      tag |-> <<"i","n","s","t","a","m","a","r","t">>],
     [key |-> <<"z","e","p","t","o">>,
      tag |-> <<"z","e","p","t","o">>],
     [key |-> <<"z","e","p","t","o",".","c","o","m">>,
      tag |-> <<"z","e","p","t","o">>],
     [key |-> <<"d","e","a","l","s","h","a","r","e">>,
      tag |-> <<"d","e","a","l","s","h","a","r","e">>],
     [key |-> <<"d","e","a","l","s","h","a","r","e",".","c","o","m">>,
      tag |-> <<"d","e","a","l","s","h","a","r","e">>],
     [key |-> <<"f","l","i","p","k","a","r","t">>,
      tag |-> <<"f","l","i","p","k","a","r","t">>],
     [key |-> <<"f","l","i","p","k","a","r","t",".","c","o","m">>,
      tag |-> <<"f","l","i","p","k","a","r","t">>],
     [key |-> <<"a","m","a","z","o","n">>,
      tag |-> <<"a","m","a","z","o","n">>],
     [key |-> <<"a","m","a","z","o","n",".","c","o","m">>,
      tag |-> <<"a","m","a","z","o","n">>],
     [key |-> <<"a","m","a","z","o","n",".","i","n">>,
      tag |-> <<"a","m","a","z","o","n">>],
     [key |-> <<"a","m","a","z","o","n",".","c","o",".","u","k">>,
      tag |-> <<"a","m","a","z","o","n">>],
     [key |-> <<"m","y","n","t","r","a">>,
      tag |-> <<"m","y","n","t","r","a">>],
     [key |-> <<"m","y","n","t","r","a",".","c","o","m">>,
      tag |-> <<"m","y","n","t","r","a">>],
     [key |-> <<"a","j","i","o">>,
      tag |-> <<"a","j","i","o">>],
     [key |-> <<"a","j","i","o",".","c","o","m">>,
      tag |-> <<"a","j","i","o">>],
     [key |-> <<"n","y","k","a","a">>,
      tag |-> <<"n","y","k","a","a">>],
     [key |-> <<"n","y","k","a","a",".","c","o","m">>,
      tag |-> <<"n","y","k","a","a">>],
     [key |-> <<"y","o","u","t","u","b","e">>,
      tag |-> <<"y","o","u","t","u","b","e">>],
     [key |-> <<"y","o","u","t","u","b","e",".","c","o","m">>,
      tag |-> <<"y","o","u","t","u","b","e">>],
     [key |-> <<"y","o","u","t","u",".","b","e">>,
      tag |-> <<"y","o","u","t","u","b","e">>],
     [key |-> <<"n","e","t","f","l","i","x">>,
      tag |-> <<"n","e","t","f","l","i","x">>],
     [key |-> <<"n","e","t","f","l","i","x",".","c","o","m">>,
      tag |-> <<"n","e","t","f","l","i","x">>],
     [key |-> <<"s","p","o","t","i","f","y">>,
      tag |-> <<"s","p","o","t","i","f","y">>],
     [key |-> <<"s","p","o","t","i","f","y",".","c","o","m">>,
      tag |-> <<"s","p","o","t","i","f","y">>],
     [key |-> <<"c","r","u","n","c","h","y","r","o","l","l">>,
      tag |-> <<"c","r","u","n","c","h","y","r","o","l","l">>],
     [key |-> <<"c","r","u","n","c","h","y","r","o","l","l",".","c","o","m">>,
      tag |-> <<"c","r","u","n","c","h","y","r","o","l","l">>],
     [key |-> <<"i","n","s","t","a","g","r","a","m">>,
      tag |-> <<"i","n","s","t","a","g","r","a","m">>],
     [key |-> <<"i","n","s","t","a","g","r","a","m",".","c","o","m">>,
      tag |-> <<"i","n","s","t","a","g","r","a","m">>],
     [key |-> <<"l","i","n","k","e","d","i","n">>,
      tag |-> <<"l","i","n","k","e","d","i","n">>],
     [key |-> <<"l","i","n","k","e","d","i","n",".","c","o","m">>,
      tag |-> <<"l","i","n","k","e","d","i","n">>],
     [key |-> <<"f","a","c","e","b","o","o","k">>,
      tag |-> <<"f","a","c","e","b","o","o","k">>],
     [key |-> <<"f","a","c","e","b","o","o","k",".","c","o","m">>,
      tag |-> <<"f","a","c","e","b","o","o","k">>],
     [key |-> <<"t","w","i","t","t","e","r">>,
      tag |-> <<"t","w","i","t","t","e","r">>],
     [key |-> <<"t","w","i","t","t","e","r",".","c","o","m">>,
      tag |-> <<"t","w","i","t","t","e","r">>],
     [key |-> <<"x",".","c","o","m">>,
      tag |-> <<"t","w","i","t","t","e","r">>],
     [key |-> <<"r","e","d","d","i","t">>,
      tag |-> <<"r","e","d","d","i","t">>],
     [key |-> <<"r","e","d","d","i","t",".","c","o","m">>,
      tag |-> <<"r","e","d","d","i","t">>],
     [key |-> <<"t","i","m","e","s","o","f","i","n","d","i","a",".","c","o","m">>,
      tag |-> <<"t","i","m","e","s","o","f","i","n","d","i","a">>],
     [key |-> <<"i","n","d","i","a","t","o","d","a","y",".","c","o","m">>,
      tag |-> <<"i","n","d","i","a","t","o","d","a","y">>],
     [key |-> <<"n","d","t","v",".","c","o","m">>,
      tag |-> <<"n","d","t","v">>],
     [key |-> <<"b","b","c",".","c","o","m">>,
      tag |-> <<"b","b","c">>],
     [key |-> <<"c","n","n",".","c","o","m">>,
      tag |-> <<"c","n","n">>],
     [key |-> <<"r","e","u","t","e","r","s",".","c","o","m">>,
      tag |-> <<"r","e","u","t","e","r","s">>],
     [key |-> <<"n","y","t","i","m","e","s",".","c","o","m">>,
      tag |-> <<"n","y","t","i","m","e","s">>],
     [key |-> <<"t","h","e","g","u","a","r","d","i","a","n",".","c","o","m">>,
      tag |-> <<"t","h","e","g","u","a","r","d","i","a","n">>],
     [key |-> <<"g","i","t","h","u","b">>,
      tag |-> <<"g","i","t","h","u","b">>],
     [key |-> <<"g","i","t","h","u","b",".","c","o","m">>,
      tag |-> <<"g","i","t","h","u","b">>],
     [key |-> <<"s","t","a","c","k","o","v","e","r","f","l","o","w">>,
      tag |-> <<"s","t","a","c","k","o","v","e","r","f","l","o","w">>],
     [key |-> <<"s","t","a","c","k","o","v","e","r","f","l","o","w",".","c","o","m">>,
      tag |-> <<"s","t","a","c","k","o","v","e","r","f","l","o","w">>],
     [key |-> <<"m","e","d","i","u","m">>,
      tag |-> <<"m","e","d","i","u","m">>],
     [key |-> <<"m","e","d","i","u","m",".","c","o","m">>,
      tag |-> <<"m","e","d","i","u","m">>],
     [key |-> <<"d","e","v",".","t","o">>,
      tag |-> <<"d","e","v","t","o">>],
     [key |-> <<"g","o","o","g","l","e",".","c","o","m">>,
      tag |-> <<"g","o","o","g","l","e">>],
     [key |-> <<"g","o","o","g","l","e",".","c","o",".","i","n">>,
      tag |-> <<"g","o","o","g","l","e">>],
     [key |-> <<"n","e","w","s",".","g","o","o","g","l","e",".","c","o","m">>,
      tag |-> <<"g","o","o","g","l","e","n","e","w","s">>],
     [key |-> <<"c","h","r","o","m","e",".","g","o","o","g","l","e",".","c","o","m">>,
      tag |-> <<"c","h","r","o","m","e">>],
     [key |-> <<"p","l","a","y",".","g","o","o","g","l","e",".","c","o","m">>,
      tag |-> <<"p","l","a","y","s","t","o","r","e">>]
  >>

\* POPULAR_HOSTNAMES[name], <<>> when the table has no such key
PopularTag(name) ==
  IF \E i \in 1..Len(POPULAR_HOSTNAMES) : POPULAR_HOSTNAMES[i].key = name
  THEN POPULAR_HOSTNAMES[CHOOSE i \in 1..Len(POPULAR_HOSTNAMES) :
                           POPULAR_HOSTNAMES[i].key = name].tag
  ELSE <<>>

\* hostname.split(".")
RECURSIVE SplitDots(_)
SplitDots(h) ==
  LET first == FirstLabel(h)
  IN IF Len(first) = Len(h) THEN <<first>>
     ELSE <<first>> \o SplitDots(SubSeq(h, Len(first) + 2, Len(h)))

\* the hostname part of detectHostnameTag: exact key, then the first key
\* in table order that contains or is contained in the hostname, then the
\* second-to-last label as a key; <<>> when the call goes on to
\* detectLinkTag
hostnameTag(u) ==
  LET hostname == extractHostname(u)
      partial == {i \in 1..Len(POPULAR_HOSTNAMES) :
                    \/ Includes(hostname, POPULAR_HOSTNAMES[i].key)
                    \/ Includes(POPULAR_HOSTNAMES[i].key, hostname)}
      parts == SplitDots(hostname)
  IN IF PopularTag(hostname) # <<>> THEN PopularTag(hostname)
     ELSE IF partial # {}
          THEN POPULAR_HOSTNAMES[CHOOSE i \in partial :
                                   \A k \in partial : i <= k].tag
     ELSE IF Len(parts) >= 2 THEN PopularTag(parts[Len(parts) - 1])
     ELSE <<>>

\* formatMetadataResponse deciding the flag without trimming
formatMetadataResponse_notrim(u, m) ==
  LET hasMetadata == Truthy(m.title) \/ Truthy(m.description) \/ Truthy(m.image)
  IN [isRecord |-> TRUE,
      url |-> IF Truthy(m.url) THEN m.url ELSE UrlText(u),
      title |-> IF hasMetadata THEN m.title ELSE Null,
      description |-> IF hasMetadata THEN m.description ELSE Null,
      image |-> IF hasMetadata THEN m.image ELSE Null,
      tag |-> IF hasMetadata THEN detectTag(u) ELSE <<"untitled">>,
      metadataFetched |-> hasMetadata,
      error |-> Null]

\* formatMetadataResponse
formatMetadataResponse(u, m) ==
  LET hasMetadata ==
        \/ (Truthy(m.title) /\ Trim(m.title) # <<>>)
        \/ (Truthy(m.description) /\ Trim(m.description) # <<>>)
        \/ (Truthy(m.image) /\ Trim(m.image) # <<>>)
  IN [isRecord |-> TRUE,
      url |-> IF Truthy(m.url) THEN m.url ELSE UrlText(u),
      title |-> IF hasMetadata THEN m.title ELSE Null,
      description |-> IF hasMetadata THEN m.description ELSE Null,
      image |-> IF hasMetadata THEN m.image ELSE Null,
      tag |-> IF hasMetadata THEN detectTag(u) ELSE <<"untitled">>,
      metadataFetched |-> hasMetadata,
      error |-> Null]

\* ------------------------------------------------------------------ controller
ErrorBody(e) ==
  [isRecord |-> FALSE, url |-> Null, title |-> Null, description |-> Null,
   image |-> Null, tag |-> Null, metadataFetched |-> FALSE, error |-> e]

\* the status getMetadata's catch block chooses from the error message
ErrorStatus(msg) ==
  IF Includes(msg, <<"Invalid", "URL">>) THEN 400
  ELSE IF Includes(msg, <<"timeout">>) \/ Includes(msg, <<"timed", "out">>) THEN 504
  ELSE IF Includes(msg, <<"HTTP", "request", "failed">>) THEN 502
  ELSE 500

ErrorName(status) ==
  CASE status = 400 -> <<"Invalid URL">>
    [] status = 504 -> <<"Request timeout">>
    [] status = 502 -> <<"Bad gateway">>
    [] OTHER -> <<"Internal server error">>

\* ------------------------------------------------------------------ state
VARIABLES
  impl,      \* which fetchMetadata is deployed: "extractors" or "scrape"
  redis,     \* redisClient: "null", "connecting", "ready", "closing"
  store,     \* Redis contents: cache key -> serialized metadata or Nil
  upstream,  \* what each endpoint does for each URL; "unset" until first used
  req,       \* the request being served
  served,    \* number of requests received so far
  target,    \* the link the client asks about (and asks again on "fetch info")
  call       \* the last direct call of a cache-service function

vars == <<impl, redis, store, upstream, req, served, target, call>>

NoOp == [kind |-> "none", site |-> "none", timer |-> FALSE, phase |-> "none"]
NullMd == Md(Null, Null, Null, Null)

\* one request's own state (the locals of its handler and what it replied)
IdleSlot ==
  [pc |-> "idle", url |-> "ex", ext |-> "none", op |-> NoOp, md |-> NullMd,
   origErr |-> NoErr, attempts |-> [k \in OpKinds |-> 0],
   lookups |-> 0, hit |-> FALSE, availAtStart |-> FALSE,
   extRaised |-> "no", cacheErrors |-> 0, cacheRaised |-> FALSE,
   direct |-> FALSE, extReturned |-> FALSE, via |-> "none", extMd |-> NullMd,
   inferred |-> FALSE, platform |-> "unset", raw |-> "url",
   concurrent |-> FALSE,
   status |-> 0, body |-> ErrorBody(Null),
   firstReply |-> <<0, ErrorBody(Null)>>]

\* the request the event loop is running, and in "parked" a second request
\* suspended at an await (idle when there is none)
IdleReq ==
  [f \in DOMAIN IdleSlot \cup {"parked"} |->
     IF f = "parked" THEN IdleSlot ELSE IdleSlot[f]]

\* (doc: the document handed to a direct parse call; put, wrote, after: the last direct set whose SETEX succeeded, the
\* metadata it was given and the Redis contents it left; seen: the Redis
\* contents when the last GET was answered)
NoCall == [pc |-> "idle", op |-> "none", client |-> "null", md |-> NullMd,
           failed |-> FALSE, raised |-> FALSE, value |-> Miss,
           doc |-> EmptyDoc,
           put |-> FALSE, wrote |-> NullMd,
           after |-> [k \in CacheKeys |-> Nil],
           seen |-> [k \in CacheKeys |-> Nil]]

\* ------------------------------------------------------------------ request steps
\* start a network operation; only scrapeMetadata arms an abort timer
Issue(r, kind, site) ==
  [r EXCEPT !.pc = "net",
            !.op = [kind |-> kind, site |-> site,
                    timer |-> (kind = "page"), phase |-> "hdr"],
            !.attempts[kind] = @ + 1]

\* reply.code(status).send(body)
\* (firstReply keeps the reply given to the first request, for comparison)
Reply(r, status, body) ==
  [r EXCEPT !.pc = "done", !.op = NoOp, !.status = status, !.body = body,
            !.firstReply = IF @[1] = 0 THEN <<status, body>> ELSE @]

\* getMetadata's catch block answering 200 with an empty record instead
HandleError_record(r, msg) ==
  Reply(r, 200, formatMetadataResponse(r.url, NullMd))

\* getMetadata's catch block
HandleError(r, msg) ==
  Reply(r, ErrorStatus(msg), ErrorBody(ErrorName(ErrorStatus(msg))))

\* fetchMetadata, "Store in cache" onwards
StoreAndFormat(r, m, avail) ==
  IF avail
  THEN [r EXCEPT !.pc = "cache_set", !.op = NoOp, !.md = m]
  ELSE Reply([r EXCEPT !.md = m], 200, formatMetadataResponse(r.url, m))

\* part_002 fetchMetadata after extractor.extract resolved
AfterExtract(r, m, avail) ==
  IF ~Truthy(m.title) /\ ~Truthy(m.description) /\ ~Truthy(m.image)
  THEN Issue([r EXCEPT !.md = m], "page", "svc_empty")
  ELSE StoreAndFormat(r, m, avail)

\* part_002 fetchMetadata's catch block rethrowing at once, without the
\* default-scraper fallback
SvcCatch_nofallback(r, msg, cause) ==
  HandleError([r EXCEPT !.origErr = msg,
                 !.extRaised = IF cause = "none" THEN @ ELSE cause], msg)

\* part_002 fetchMetadata's catch block: remember the error, try scrapeMetadata
SvcCatch(r, msg, cause) ==
  Issue([r EXCEPT !.origErr = msg,
                  !.extRaised = IF cause = "none" THEN @ ELSE cause],
        "page", "svc_fallback")

\* extract() returns m, obtained by strategy via, to its caller: fetchMetadata,
\* or the direct caller of a DirectExtract
ExtractReturn(r, via, m, avail) ==
  LET r1 == [r EXCEPT !.via = via, !.extMd = m, !.extReturned = TRUE]
  IN IF r.direct
     THEN [r1 EXCEPT !.pc = "returned", !.op = NoOp, !.md = m]
     ELSE AfterExtract(r1, m, avail)

\* extract() throws msg to its caller
ExtractRaise(r, msg, cause) ==
  IF r.direct
  THEN [r EXCEPT !.pc = "returned", !.op = NoOp, !.origErr = msg,
                 !.extRaised = cause]
  ELSE SvcCatch(r, msg, cause)

\* the URL-inference step and what follows it in a scrape-then-infer chain
AfterInfer(r, avail) ==
  LET um == extractFromUrl(r.ext, r.url)
      r1 == [r EXCEPT !.inferred = TRUE]
  IN IF Truthy(um.title) THEN ExtractReturn(r1, "url", um, avail)
     ELSE Issue(r1, "page", "ext_try")

\* extract() up to its first await, with Flipkart scraping the HTML before it
\* looks at the URL
ExtractStart_htmlfirst(r, avail) ==
  CASE r.ext \in {"oembed:youtube", "oembed:spotify", "oembed:twitter"} ->
         Issue(r, "oembed", "ext")
    [] r.ext \in {"reddit", "instagram", "facebook", "swiggy", "blocked",
                  "flipkart"} ->
         Issue(r, "html", "ext")
    [] r.ext = "blinkit" ->
         IF Truthy(extractFromUrl("blinkit", r.url).title)
         THEN Issue([r EXCEPT !.inferred = TRUE], "html", "ext")
         ELSE Issue([r EXCEPT !.inferred = TRUE], "page", "ext_try")
    [] OTHER -> Issue(r, "page", "ext_default")

\* extract() up to its first await
ExtractStart(r, avail) ==
  CASE r.ext \in {"oembed:youtube", "oembed:spotify", "oembed:twitter"} ->
         Issue(r, "oembed", "ext")
    [] r.ext \in {"reddit", "instagram", "facebook", "swiggy", "blocked"} ->
         Issue(r, "html", "ext")
    [] r.ext = "flipkart" ->
         LET um == extractFromUrl("flipkart", r.url)
             r1 == [r EXCEPT !.inferred = TRUE]
         IN IF Truthy(um.title) THEN ExtractReturn(r1, "url", um, avail)
            ELSE Issue(r1, "html", "ext")
    [] r.ext = "blinkit" ->
         IF Truthy(extractFromUrl("blinkit", r.url).title)
         THEN Issue([r EXCEPT !.inferred = TRUE], "html", "ext")
         ELSE Issue([r EXCEPT !.inferred = TRUE], "page", "ext_try")
    [] OTHER -> Issue(r, "page", "ext_default")

\* extract() resumed after its platform HTML fetch
AfterHtml(r, res, avail) ==
  LET valid == res.ok /\ isValidMetadata(res.md)
      um == extractFromUrl(r.ext, r.url)
      merged == Md(IF Truthy(res.md.title) THEN res.md.title ELSE um.title,
                   IF Truthy(res.md.description) THEN res.md.description
                   ELSE um.description,
                   IF Truthy(res.md.image) THEN res.md.image ELSE um.image,
                   UrlText(r.url))
  IN CASE r.ext = "reddit" ->
            IF valid THEN ExtractReturn(r, "html", res.md, avail)
            ELSE Issue(r, "json", "ext")
       [] r.ext \in {"instagram", "facebook", "blocked"} ->
            IF valid THEN ExtractReturn(r, "html", res.md, avail)
            ELSE AfterInfer(r, avail)
       [] r.ext = "flipkart" ->
            IF valid THEN ExtractReturn(r, "html", res.md, avail)
            ELSE IF res.ok THEN Issue(r, "page", "ext_try")
            ELSE Issue(r, "page", "ext_catch")
       [] r.ext = "blinkit" ->
            IF res.ok THEN ExtractReturn(r, "merge", merged, avail)
            ELSE ExtractReturn(r, "url", um, avail)
       [] OTHER ->  \* swiggy
            IF HasInstamartSegment(r.url)
            THEN IF valid
                 THEN ExtractReturn([r EXCEPT !.inferred = TRUE], "merge", merged, avail)
                 ELSE AfterInfer(r, avail)
            ELSE IF valid THEN ExtractReturn(r, "html", res.md, avail)
                 ELSE Issue(r, "page", "ext_try")

\* RedditExtractor.extract resumed after the JSON call (res = redditJson)
AfterJson(r, res, avail) ==
  IF res.hasPost THEN ExtractReturn(r, "json", res.md, avail)
  ELSE AfterInfer(r, avail)

\* OEmbedExtractor.extract resumed after the oEmbed call
AfterOEmbed(r, res, avail) ==
  IF res.ok THEN ExtractReturn(r, "oembed", res.md, avail)
  ELSE ExtractRaise(r, OEmbedWrap(res.err), "oembed")

\* resumed after scrapeMetadata, by call site
AfterScrape(r, res, avail) ==
  CASE r.op.site = "ext_try" ->
         \* "Final fallback to default scraper" inside extract's try
         IF res.ok THEN ExtractReturn(r, "page", res.md, avail)
         ELSE IF r.ext = "blocked"
              THEN ExtractReturn(r, "minimal", getMinimalMetadata(r.url), avail)
              ELSE Issue(r, "page", "ext_catch")
    [] r.op.site \in {"ext_catch", "ext_default"} ->
         IF res.ok THEN ExtractReturn(r, "page", res.md, avail)
         ELSE ExtractRaise(r, res.err, "default_fetch")
    [] r.op.site = "svc_empty" ->
         \* part_002:130 sits inside the try block
         IF res.ok THEN StoreAndFormat(r, res.md, avail)
         ELSE SvcCatch(r, res.err, "none")
    [] r.op.site = "svc_fallback" ->
         IF res.ok THEN StoreAndFormat(r, res.md, avail)
         ELSE HandleError(r, r.origErr)
    [] OTHER ->  \* "svc_direct", metadata.service.ts:104
         IF res.ok THEN StoreAndFormat(r, res.md, avail)
         ELSE HandleError(r, res.err)

\* ------------------------------------------------------------------ actions
\* the endpoint behaves as o for this URL, now and from now on (only
\* reddit.com serves the Reddit landing page)
Behaves(kind, u, o) ==
  /\ o \in Outcomes[kind]
  /\ o \in GenericOutcomes => isPlatform(u, "reddit")
  /\ upstream[kind][u] \in {"unset", o}
  /\ upstream' = [upstream EXCEPT ![kind][u] = o]

Busy == req.pc \in {"cache_get", "net", "cache_set"}

\* fetchMetadata(r0.url), past normalizeUrl, up to its first await
fetchMetadataStart(r0, avail) ==
  IF impl = "scrape"
  THEN IF avail
       THEN [r0 EXCEPT !.pc = "cache_get", !.lookups = 1]
       ELSE Issue(r0, "page", "svc_direct")
  ELSE ExtractStart([r0 EXCEPT !.ext = getExtractorForUrl(r0.url),
                               !.platform = detectPlatform(r0.url)], avail)

\* GET /api/metadata?url=u : getMetadata calls fetchMetadata, which runs to
\* its first await
StartRequest(u) ==
  /\ u = target
  /\ ~Busy
  /\ served < MaxRequests
  /\ served' = served + 1
  /\ LET avail == isCacheAvailable(redis)
         r0 == [IdleReq EXCEPT !.url = u, !.availAtStart = avail,
                               !.firstReply = req.firstReply]
     IN req' = fetchMetadataStart(r0, avail)
  /\ UNCHANGED <<impl, redis, store, upstream, target, call>>

\* metadata.service.ts:95 resumes with the result of getCachedMetadata
CacheGetReturn ==
  /\ req.pc = "cache_get"
  /\ \E reply \in GetReplies(redis, store, getCacheKey(req.url)) :
       LET res == getCachedMetadata("ready", reply)
           r1 == [req EXCEPT !.cacheErrors =
                    IF reply.kind = "value" THEN @ ELSE @ + 1]
       IN req' = IF res.raised
                 THEN HandleError([r1 EXCEPT !.cacheRaised = TRUE],
                                  <<"cache", "error">>)
                 ELSE IF res.value # Miss
                 THEN Reply([r1 EXCEPT !.hit = TRUE, !.md = res.value], 200,
                            formatMetadataResponse(req.url, res.value))
                 ELSE Issue(r1, "page", "svc_direct")
  /\ UNCHANGED <<impl, redis, store, upstream, served, target, call>>

\* a network operation completes (response or transport error)
NetRespond ==
  /\ req.pc = "net"
  /\ LET avail == isCacheAvailable(redis)
         u == req.url
     IN \E o \in Outcomes[req.op.kind] :
          /\ Behaves(req.op.kind, u, o)
          /\ CASE req.op.kind = "page" ->
                    /\ \/ req.op.phase = "hdr" /\ o \in {"http_err", "net_err"}
                       \/ req.op.phase = "body" /\ o \in {"ok_meta", "ok_none", "empty_body"}
                    /\ req' = AfterScrape(req, scrapeMetadata(u, o), avail)
               [] req.op.kind = "html" ->
                    /\ o # "hang"
                    /\ req' = AfterHtml(req, platformHtml(req.ext, u, o), avail)
               [] req.op.kind = "oembed" ->
                    /\ o # "hang"
                    /\ req' = AfterOEmbed(req, oembedCall(u, o), avail)
               [] OTHER ->
                    /\ o # "hang"
                    /\ req' = AfterJson(req, redditJson(u, o), avail)
  /\ UNCHANGED <<impl, redis, store, served, target, call>>

\* scrapeMetadata: the response headers arrive, clearTimeout(timeoutId), the
\* body is still to be read
ScrapeHeaders ==
  /\ req.pc = "net" /\ req.op.kind = "page" /\ req.op.phase = "hdr"
  /\ \E o \in {"ok_meta", "ok_none", "empty_body", "body_stall"} :
       Behaves("page", req.url, o)
  /\ req' = [req EXCEPT !.op.phase = "body", !.op.timer = FALSE]
  /\ UNCHANGED <<impl, redis, store, served, target, call>>

\* the abort timer fires on an operation that has not answered
NetAbort ==
  /\ req.pc = "net" /\ req.op.timer
  /\ Behaves(req.op.kind, req.url, "hang")
  /\ req' = AfterScrape(req, scrapeMetadata(req.url, "hang"),
                        isCacheAvailable(redis))
  /\ UNCHANGED <<impl, redis, store, served, target, call>>

\* an upstream that never answers an operation no timer guards
NetStall ==
  /\ req.pc = "net" /\ ~req.op.timer /\ req.op.kind # "page"
  /\ upstream[req.op.kind][req.url] = "unset"
  /\ Behaves(req.op.kind, req.url, "hang")
  /\ UNCHANGED <<impl, redis, store, req, served, target, call>>

\* fetchMetadata resumes after setCachedMetadata and formats the response
CacheSetReturn ==
  /\ req.pc = "cache_set"
  /\ \E outcome \in SetOutcomes(redis) :
       LET res == setCachedMetadata("ready", store, req.url, req.md, outcome)
           r1 == [req EXCEPT !.cacheErrors = IF outcome = "ok" THEN @ ELSE @ + 1]
       IN /\ store' = res.st
          /\ req' = IF res.raised
                    THEN HandleError([r1 EXCEPT !.cacheRaised = TRUE],
                                     <<"cache", "error">>)
                    ELSE Reply(r1, 200, formatMetadataResponse(req.url, req.md))
  /\ UNCHANGED <<impl, redis, upstream, served, target, call>>

\* the Redis connection drops; ioredis starts reconnecting
RedisDisconnect ==
  /\ redis = "ready"
  /\ redis' = "connecting"
  /\ UNCHANGED <<impl, store, upstream, req, served, target, call>>

RedisReconnect ==
  /\ redis = "connecting"
  /\ redis' = "ready"
  /\ UNCHANGED <<impl, store, upstream, req, served, target, call>>

\* closeCache: await redisClient.quit() ...
CloseCacheBegin ==
  /\ redis \in {"ready", "connecting"}
  /\ redis' = "closing"
  /\ UNCHANGED <<impl, store, upstream, req, served, target, call>>

\* ... redisClient = null
CloseCacheEnd ==
  /\ redis = "closing"
  /\ redis' = "null"
  /\ UNCHANGED <<impl, store, upstream, req, served, target, call>>

\* an entry reaches its TTL
Expire ==
  /\ \E k \in CacheKeys :
       /\ store[k] # Nil
       /\ store' = [store EXCEPT ![k] = Nil]
  /\ UNCHANGED <<impl, redis, upstream, req, served, target, call>>

\* ------------------------------------------------------------------ specification
\* after createApp: initializeCache connected, or failed and left null
Init ==
  /\ impl \in {"extractors", "scrape"}
  /\ redis \in {"null", "ready"}
  /\ store = [k \in CacheKeys |-> Nil]
  /\ upstream = [k \in OpKinds |-> [u \in URLs |-> "unset"]]
  /\ req = IdleReq
  /\ served = 0
  /\ target \in URLs
  /\ call = NoCall

Next ==
  \/ \E u \in URLs : StartRequest(u)
  \/ CacheGetReturn
  \/ NetRespond
  \/ ScrapeHeaders
  \/ NetAbort
  \/ NetStall
  \/ CacheSetReturn
  \/ RedisDisconnect
  \/ RedisReconnect
  \/ CloseCacheBegin
  \/ CloseCacheEnd
  \/ Expire

Spec == Init /\ [][Next]_vars

\* ------------------------------------------------------------------ direct cache calls
\* The exported cache functions called on their own, in any client state
\* (CacheSpec).  A call is split at its await, so that the connection can
\* drop or be closed while the command is in flight.
\* a fresh call record that remembers the last successful set
NextCall == [NoCall EXCEPT !.put = call.put, !.wrote = call.wrote,
                           !.after = call.after]

DirectGetCall ==
  /\ call.pc # "pending"
  /\ call' = IF redis = "null"
             THEN [NextCall EXCEPT !.pc = "returned", !.op = "get", !.failed = TRUE,
                     !.raised = getCachedMetadata("null", [kind |-> "error", val |-> Nil]).raised,
                     !.value = getCachedMetadata("null", [kind |-> "error", val |-> Nil]).value]
             ELSE [NextCall EXCEPT !.pc = "pending", !.op = "get", !.client = redis]
  /\ UNCHANGED <<impl, redis, store, upstream, req, served, target>>

DirectGetReturn ==
  /\ call.pc = "pending" /\ call.op = "get"
  /\ \E reply \in GetReplies(redis, store, getCacheKey(target)) :
       LET res == getCachedMetadata(call.client, reply)
       IN call' = [NextCall EXCEPT !.pc = "returned", !.op = "get",
                     !.failed = reply.kind # "value",
                     !.raised = res.raised, !.value = res.value,
                     !.seen = store]
  /\ UNCHANGED <<impl, redis, store, upstream, req, served, target>>

DirectSetCall ==
  /\ call.pc # "pending"
  /\ \E m \in {Md(<<"T">>, Null, Null, UrlText(target)),
              Md(Null, Null, Null, UrlText(target))} :
       call' = IF redis = "null"
               THEN [NextCall EXCEPT !.pc = "returned", !.op = "set",
                       !.failed = TRUE,
                       !.raised = setCachedMetadata("null", store, target, m, "error").raised]
               ELSE [NextCall EXCEPT !.pc = "pending", !.op = "set", !.md = m,
                       !.client = redis]
  /\ UNCHANGED <<impl, redis, store, upstream, req, served, target>>

DirectSetReturn ==
  /\ call.pc = "pending" /\ call.op = "set"
  /\ \E outcome \in SetOutcomes(redis) :
       LET res == setCachedMetadata(call.client, store, target, call.md, outcome)
       IN /\ store' = res.st
          /\ call' = [NextCall EXCEPT !.pc = "returned", !.op = "set",
                        !.failed = outcome # "ok", !.raised = res.raised,
                        !.put = (outcome = "ok") \/ @,
                        !.wrote = IF outcome = "ok" THEN call.md ELSE @,
                        !.after = IF outcome = "ok" THEN res.st ELSE @]
  /\ UNCHANGED <<impl, redis, upstream, req, served, target>>

CacheNext ==
  \/ DirectGetCall
  \/ DirectGetReturn
  \/ DirectSetCall
  \/ DirectSetReturn
  \/ RedisDisconnect
  \/ RedisReconnect
  \/ CloseCacheBegin
  \/ CloseCacheEnd
  \/ Expire
  \/ \E u \in URLs : StartRequest(u)
  \/ CacheGetReturn
  \/ NetRespond
  \/ ScrapeHeaders
  \/ NetAbort
  \/ NetStall
  \/ CacheSetReturn

\* the links asked for while the cache functions are exercised: one that
\* goes through a platform extractor and one that does not
CacheInit == Init /\ target \in {"yt", "ex"}

CacheSpec == CacheInit /\ [][CacheNext]_vars

\* ------------------------------------------------------------------ request validation
\* The url query parameter as it arrives (InputSpec): absent, or a string
\* made of optional surrounding blanks, an optional "scheme:" prefix and a
\* rest; rest names the link the text after the scheme spells, "none" when
\* there is no such text.
RawInputs(u) ==
  { [kind |-> "missing",  present |-> FALSE, pad |-> FALSE, scheme |-> "none",  rest |-> "none"],
    [kind |-> "empty",    present |-> TRUE,  pad |-> FALSE, scheme |-> "none",  rest |-> "none"],
    [kind |-> "blank",    present |-> TRUE,  pad |-> TRUE,  scheme |-> "none",  rest |-> "none"],
    [kind |-> "bare",     present |-> TRUE,  pad |-> FALSE, scheme |-> "none",  rest |-> u],
    [kind |-> "hostport", present |-> TRUE,  pad |-> FALSE, scheme |-> "host",  rest |-> u],
    [kind |-> "ftp",      present |-> TRUE,  pad |-> FALSE, scheme |-> "ftp",   rest |-> u],
    [kind |-> "padded",   present |-> TRUE,  pad |-> TRUE,  scheme |-> "https", rest |-> u],
    [kind |-> "url",      present |-> TRUE,  pad |-> FALSE, scheme |-> "https", rest |-> u] }

\* schemes whose URLs must have a host
\* new URL(x) does not throw: surrounding blanks are stripped, a scheme is
\* required, and a special scheme requires a host
ParsesAsUrl(x) ==
  /\ x.scheme # "none"
  /\ x.scheme \in {"http", "https", "ftp", "ws", "wss"} => x.rest # "none"

\* String.prototype.trim() of the parameter leaves nothing
TrimsToEmpty(x) == x.scheme = "none" /\ x.rest = "none"

\* MetadataQuerySchema.safeParse({url}).success: a string that new URL accepts
safeParse(x) == x.present /\ ParsesAsUrl(x)

\* isValidUrl accepting every scheme new URL can parse
isValidUrl_anyscheme(x) == ParsesAsUrl(x)

\* isValidUrl
isValidUrl(x) == ParsesAsUrl(x) /\ x.scheme \in {"http", "https"}

\* String.prototype.trim() of the parameter
TrimRaw(x) ==
  [x EXCEPT !.pad = FALSE,
            !.kind = CASE x.kind = "padded" -> "url"
                       [] x.kind = "blank" -> "empty"
                       [] OTHER -> x.kind]

\* normalizeUrl returning the URL without its "scheme:" prefix
normalizeUrl_noscheme(x) ==
  CASE ~x.present \/ (TrimsToEmpty(x) /\ ~x.pad) ->
         [raised |-> TRUE, url |-> "none", text |-> x,
          err |-> <<"URL", "is", "required", "and", "must", "be", "a", "string">>]
    [] TrimsToEmpty(x) ->
         [raised |-> TRUE, url |-> "none", text |-> x,
          err |-> <<"URL", "cannot", "be", "empty">>]
    [] ~isValidUrl(TrimRaw(x)) ->
         [raised |-> TRUE, url |-> "none", text |-> x,
          err |-> <<"Invalid", "URL", "format", ":", TrimRaw(x).kind>>]
    [] OTHER -> [raised |-> FALSE, url |-> x.rest,
                 text |-> [TrimRaw(x) EXCEPT !.scheme = "none", !.kind = "bare"],
                 err |-> NoErr]

\* normalizeUrl: the trimmed URL, or the error thrown ("text" is the string
\* returned, "url" the link it spells)
normalizeUrl(x) ==
  CASE ~x.present \/ (TrimsToEmpty(x) /\ ~x.pad) ->
         [raised |-> TRUE, url |-> "none", text |-> x,
          err |-> <<"URL", "is", "required", "and", "must", "be", "a", "string">>]
    [] TrimsToEmpty(x) ->
         [raised |-> TRUE, url |-> "none", text |-> x,
          err |-> <<"URL", "cannot", "be", "empty">>]
    [] ~isValidUrl(TrimRaw(x)) ->
         [raised |-> TRUE, url |-> "none", text |-> x,
          err |-> <<"Invalid", "URL", "format", ":", TrimRaw(x).kind>>]
    [] OTHER -> [raised |-> FALSE, url |-> x.rest, text |-> TrimRaw(x), err |-> NoErr]

\* GET /api/metadata with the url parameter x: getMetadata validates it,
\* then fetchMetadata normalizes it and runs to its first await
StartRaw(x) ==
  /\ ~Busy
  /\ served < MaxRequests
  /\ served' = served + 1
  /\ LET avail == isCacheAvailable(redis)
         r0 == [IdleReq EXCEPT !.raw = x.kind, !.availAtStart = avail,
                               !.firstReply = req.firstReply]
         n == normalizeUrl(x)
     IN req' = IF ~safeParse(x)
               THEN Reply(r0, 400, ErrorBody(<<"Invalid request">>))
               ELSE IF n.raised THEN HandleError(r0, n.err)
               ELSE fetchMetadataStart([r0 EXCEPT !.url = n.url], avail)
  /\ UNCHANGED <<impl, redis, store, upstream, target, call>>

InputNext ==
  \/ \E x \in RawInputs(target) : StartRaw(x)
  \/ CacheGetReturn
  \/ NetRespond
  \/ ScrapeHeaders
  \/ NetAbort
  \/ NetStall
  \/ CacheSetReturn

\* the links spelled by the parameter: one that goes through a platform
\* extractor and one that does not
InputInit == Init /\ target \in {"yt", "ex"}

InputSpec == InputInit /\ [][InputNext]_vars

\* ------------------------------------------------------------------ concurrent requests
\* Two requests in flight at once (ConcSpec).  Node runs one handler at a
\* time and may switch to the other at every await; the handlers share the
\* Redis client, Redis itself and the upstream, and nothing else.
Park(r) == [f \in DOMAIN IdleSlot |-> r[f]]

\* resuming a request with the metadata the other handler holds, as if
\* parsedMetadata were a variable of the module
Resume_sharedmd(p, q) ==
  [f \in DOMAIN IdleReq |->
     IF f = "parked" THEN q ELSE IF f = "md" THEN q.md ELSE p[f]]

\* the event loop resumes request p, leaving q suspended
Resume(p, q) ==
  [f \in DOMAIN IdleReq |-> IF f = "parked" THEN q ELSE p[f]]

\* the event loop turns to the other request
Switch ==
  /\ req.pc # "idle" \/ req.parked.pc # "idle"
  /\ req' = Resume(req.parked, Park(req))
  /\ UNCHANGED <<impl, redis, store, upstream, served, target, call>>

\* the links asked for: the target, and a second link
\* GET /api/metadata?url=u arriving while another request may be in flight
ConcStart(u) ==
  /\ u \in {target, "ex"}
  /\ req.pc \in {"idle", "done"}
  /\ served < MaxRequests
  /\ served' = served + 1
  /\ LET avail == isCacheAvailable(redis)
         r0 == [IdleReq EXCEPT !.url = u, !.availAtStart = avail,
                  !.concurrent = req.parked.pc \in {"cache_get", "net", "cache_set"},
                  !.parked = req.parked]
     IN req' = fetchMetadataStart(r0, avail)
  /\ UNCHANGED <<impl, redis, store, upstream, target, call>>

ConcNext ==
  \/ \E u \in URLs : ConcStart(u)
  \/ Switch
  \/ CacheGetReturn
  \/ NetRespond
  \/ ScrapeHeaders
  \/ NetAbort
  \/ NetStall
  \/ CacheSetReturn

ConcInit == Init /\ target \in {"yt", "ex"}

ConcSpec == ConcInit /\ [][ConcNext]_vars

\* ------------------------------------------------------------------ direct parse calls
\* parseOpenGraphTags(html, baseUrl) called on its own (ParseSpec), over
\* pages that vary the sources of one field at a time.
\* <img> elements: a photo, a photo known by data-src only, and images the
\* logo heuristic is about
Img(src, dataSrc, class, alt, ancestors, w, h) ==
  [src |-> src, dataSrc |-> dataSrc, class |-> class, id |-> Null, alt |-> alt,
   ancestors |-> ancestors, width |-> w, height |-> h]

\* the pages handed to parseOpenGraphTags
Docs ==
  LET
      TitleDocs ==
        { [EmptyDoc EXCEPT !.ogTitle = a, !.titleTag = b, !.h1 = c, !.metaTitle = d,
                           !.headings = e] :
            a \in {Null, <<" ">>, <<" ", "OG", " ", " ", "T", " ">>},
            b \in {<<>>, <<"Page">>},
            c \in {<<>>, << <<" ">>, <<"H1b">> >>, << <<"H1">> >>},
            d \in {Null, <<"MT">>},
            e \in {[l \in 2..6 |-> <<>>],
                   [l \in 2..6 |-> IF l = 2 THEN << <<"H2">> >> ELSE <<>>],
                   [l \in 2..6 |-> IF l = 3 THEN << <<"H3">> >> ELSE <<>>],
                   [l \in 2..6 |-> IF l = 2 THEN << <<>>, <<"H2b">> >>
                                    ELSE IF l = 4 THEN << <<"H4">> >> ELSE <<>>],
                   [l \in 2..6 |-> IF l = 2 THEN << <<"H2">> >>
                                    ELSE IF l = 3 THEN << <<"H3">> >> ELSE <<>>]} }

      DescDocs ==
        { [EmptyDoc EXCEPT !.ogDesc = a, !.metaDesc = b, !.paragraphs = c,
                           !.keywords = d, !.titleTag = e, !.aria = f] :
            a \in {Null, <<" ">>, <<"OGD">>},
            b \in {Null, <<"MD">>},
            c \in {<<>>,
                   << [area |-> "body", text |-> <<"p49">>] >>,
                   << [area |-> "body", text |-> <<"home50">>] >>,
                   << [area |-> "other", text |-> <<" ", "p50">>] >>,
                   << [area |-> "body", text |-> <<"p50">>],
                      [area |-> "main", text |-> <<"main50">>] >>},
            d \in {Null, <<"KW">>},
            e \in {<<>>, <<"t19">>, <<"t20">>},
            f \in {<<>>, << <<"a29">> >>, << <<"a29">>, <<"a30">> >>} }

      Photo == Img(<<"img", "/", "photo", ".", "jpg">>, Null, <<"hero">>, Null, <<"div">>, 0, 0)
      LazyPhoto == Img(Null, <<"/", "lazy", ".", "jpg">>, Null, Null, <<"div">>, 800, 600)
      BigPhoto == Img(<<"https://", "cdn", "/", "big", ".", "jpg">>, Null, Null, Null, <<"main">>, 400, 300)
      LogoByClass == Img(<<"a", ".", "png">>, Null, <<"site", "LOGO">>, Null, <<"div">>, 900, 900)
      LogoByAlt == Img(<<"a", ".", "png">>, Null, Null, <<"Icon">>, <<"div">>, 0, 0)
      LogoBySrc == Img(<<"/", "favicon", ".", "ico">>, Null, Null, Null, <<"div">>, 0, 0)
      LogoInNav == Img(<<"b", ".", "png">>, Null, Null, Null, <<"a", "nav">>, 0, 0)
      SmallBoth == Img(<<"s", ".", "png">>, Null, Null, Null, <<"div">>, 50, 50)
      SmallWidthOnly == Img(<<"w", ".", "png">>, Null, Null, Null, <<"div">>, 50, 0)
      SmallHeightOnly == Img(<<"h", ".", "png">>, Null, Null, Null, <<"div">>, 0, 60)

      ImageLists ==
        { <<>>, <<Photo>>, <<LazyPhoto>>, <<Photo, BigPhoto>>, <<Photo, LazyPhoto, BigPhoto>>,
          <<LogoByClass>>, <<LogoByAlt>>, <<LogoBySrc>>, <<LogoInNav>>, <<SmallBoth>>,
          <<SmallWidthOnly>>, <<SmallHeightOnly>>,
          <<LogoByClass, Photo>>, <<SmallBoth, LogoInNav, BigPhoto>>, <<SmallWidthOnly, Photo>> }

      ImageDocs ==
        { [EmptyDoc EXCEPT !.ogTitle = t, !.ogImage = a, !.images = b, !.ogUrl = c] :
            t \in {Null, <<"T">>},
            a \in {Null, <<" ">>, <<"/", "og", ".", "png">>,
                   <<"https://", "cdn", "/", "og", ".", "png">>, <<"http://">>},
            b \in ImageLists,
            c \in {Null, <<"/", "article", "/", "1">>, <<"https://", "site", "/", "1">>} }
  IN TitleDocs \cup DescDocs \cup ImageDocs

\* (each behaviour makes one call: the function keeps nothing between calls)
ParseCall(doc) ==
  /\ call.pc = "idle"
  /\ call' = [NoCall EXCEPT !.pc = "returned", !.op = "parse", !.doc = doc,
                            !.md = parseDocument(doc, target)]
  /\ UNCHANGED <<impl, redis, store, upstream, req, served, target>>

ParseNext == \E doc \in Docs : ParseCall(doc)

ParseInit == Init /\ impl = "scrape" /\ redis = "null" /\ target \in {"ex", "yt"}

ParseSpec == ParseInit /\ [][ParseNext]_vars

\* ------------------------------------------------------------------ direct extract calls
\* BlockedExtractor("netflix").extract(url) called on its own, for any URL
\* (ExtractSpec): the call runs to its first await and later resumes as in
\* a request; pc "returned" holds what the call gave back to its caller.
DirectExtract(e) ==
  /\ ~Busy
  /\ served < MaxRequests
  /\ served' = served + 1
  /\ req' = ExtractStart([IdleReq EXCEPT !.url = target, !.ext = e,
                                         !.direct = TRUE,
                                         !.firstReply = req.firstReply],
                         isCacheAvailable(redis))
  /\ UNCHANGED <<impl, redis, store, upstream, target, call>>

\* (extractFromUrl of the blocked extractor always has a title, so its
\* scrapeMetadata call is never issued and no timer is ever armed)
ExtractNext ==
  \/ DirectExtract("blocked")
  \/ NetRespond
  \/ NetStall

ExtractInit == Init /\ impl = "extractors"

ExtractSpec == ExtractInit /\ [][ExtractNext]_vars

\* ------------------------------------------------------------------ properties
AnyAttempt(r) == \E k \in OpKinds : r.attempts[k] > 0

PageFailures == {"http_err", "net_err", "hang", "empty_body"}

\* the request ended and its default page fetch, the last strategy, failed
TotalFailure(r) ==
  /\ r.pc = "done"
  /\ r.attempts["page"] > 0
  /\ upstream["page"][r.url] \in PageFailures

\* a string field that is present and not blank
NonBlank(s) == s # Null /\ Trim(s) # <<>>

\* C1: extract(url) of a registered platform extractor raises only when the
\* default extractor's page fetch, the last step of its chain, failed; every
\* other step failure is caught inside extract.
C1_ExtractRaisesOnlyOnDefaultFetch ==
  req.extRaised \in {"no", "default_fetch"}

\* C2 (as claimed): when every strategy and the final page fetch failed, the
\* caller still receives a MetadataRecord with null title, description and
\* image and metadataFetched = false.
C2_TotalFailureReturnsRecord ==
  TotalFailure(req) =>
    /\ req.body.isRecord
    /\ req.body.title = Null /\ req.body.description = Null
    /\ req.body.image = Null /\ req.body.metadataFetched = FALSE

\* C2 (amended): when every strategy and the final page fetch failed, the
\* caller receives an error body with status 500, 502 or 504 and no
\* MetadataRecord; the record with null fields and metadataFetched = false
\* comes with status 200, when the metadata obtained has no non-blank field.
C2_TotalFailureRepliesError ==
  /\ TotalFailure(req) =>
       /\ ~req.body.isRecord
       /\ req.status \in {500, 502, 504}
  /\ (req.pc = "done" /\ req.body.isRecord /\ ~req.body.metadataFetched) =>
       /\ req.status = 200
       /\ ~TotalFailure(req)
       /\ ~isValidMetadata(req.md)
       /\ req.body.title = Null /\ req.body.description = Null
       /\ req.body.image = Null

C2_Witness ==
  TotalFailure(req) /\ req.ext = "reddit" /\ req.attempts["json"] > 0

\* C3: when extraction of a valid URL ultimately fails, the status tells why
\* the page fetch failed, whatever extractor the URL went through: 502 for a
\* non-2xx answer or a network failure, 504 for a timeout.
C3_StatusReflectsCause ==
  TotalFailure(req) =>
    /\ upstream["page"][req.url] \in {"http_err", "net_err"} => req.status = 502
    /\ upstream["page"][req.url] = "hang" => req.status = 504

\* C4: the cache is consulted before any extractor or page fetch runs, and a
\* request answered from the cache does no extraction.
C4_CacheConsultedBeforeExtraction ==
  /\ (req.availAtStart /\ AnyAttempt(req)) => req.lookups >= 1
  /\ req.hit => ~AnyAttempt(req)

\* C5: getCachedMetadata returns a miss and setCachedMetadata returns
\* normally, neither raising, when the client is absent, not ready, closed
\* while the command is in flight, or the command or the (de)serialization
\* fails; and no request ends in an error because of the cache.
C5_CacheNeverRaises ==
  /\ ~call.raised
  /\ (call.pc = "returned" /\ call.op = "get" /\ call.failed) => call.value = Miss
  /\ ~req.cacheRaised
  /\ (req.pc = "done" /\ req.status # 200) => TotalFailure(req)

C5_Witness ==
  /\ call.pc = "returned" /\ call.op = "get" /\ call.failed /\ call.value = Miss
  /\ redis \in {"closing", "connecting"}
  /\ req.pc = "done" /\ req.cacheErrors > 0 /\ req.status = 200

\* what the "scrape" fetchMetadata answers when there is no cache at all
UncachedScrapeReply(u) ==
  LET res == scrapeMetadata(u, upstream["page"][u])
  IN IF res.ok THEN <<200, formatMetadataResponse(u, res.md)>>
     ELSE <<ErrorStatus(res.err), ErrorBody(ErrorName(ErrorStatus(res.err)))>>

\* C6: the cache is transparent: with the upstream behaviour fixed, every
\* reply for a URL is the same whether it came from a cache hit, after a
\* miss, with the cache unavailable or with no cache; for the "scrape"
\* fetchMetadata it is the reply of the uncached pipeline.
C6_CacheTransparent ==
  req.pc = "done" =>
    /\ <<req.status, req.body>> = req.firstReply
    /\ impl = "scrape" => <<req.status, req.body>> = UncachedScrapeReply(req.url)

C6_Witness ==
  req.pc = "done" /\ req.hit /\ served = 2 /\ req.body.metadataFetched

\* C7: every network operation in flight is guarded by an abort timer.
C7_EveryNetworkOpHasTimer ==
  req.pc = "net" => req.op.timer

\* C8: within one request no strategy step is attempted more than once.
C8_NoStepRetried ==
  \A k \in OpKinds : req.attempts[k] <= 1

OEmbedFailed(r) ==
  /\ r.ext = "oembed:youtube"
  /\ r.attempts["oembed"] > 0
  /\ upstream["oembed"][r.url] \in {"http_err", "net_err"}

\* C9 (as claimed): a YouTube request whose oEmbed call failed still ends
\* with a record, never with the failure.
C9_OEmbedFailureStillReturns ==
  (req.pc = "done" /\ OEmbedFailed(req)) => (req.status = 200 /\ req.body.isRecord)

\* C9 (amended): a YouTube request whose oEmbed call failed falls through to
\* the default page scrape, and whenever that scrape succeeds the reply is
\* the record made from the scraped ParsedMetadata (possibly all null); when
\* the scrape fails too, the request ends with an error and no record.
C9_OEmbedFailureFallsBack ==
  (req.pc = "done" /\ OEmbedFailed(req)) =>
    /\ req.attempts["page"] > 0
    /\ upstream["page"][req.url] \in {"ok_meta", "ok_none"} =>
         /\ req.status = 200
         /\ req.body = formatMetadataResponse(req.url,
                         parseOpenGraphTags(req.url, upstream["page"][req.url]))
    /\ upstream["page"][req.url] \in PageFailures =>
         /\ req.status # 200
         /\ ~req.body.isRecord

C9_Witness ==
  /\ req.pc = "done" /\ OEmbedFailed(req)
  /\ upstream["page"][req.url] = "ok_none"
  /\ req.status = 200 /\ ~req.body.metadataFetched

\* C10: in every record the formatter produces, metadataFetched is true
\* exactly when a returned title, description or image is non-blank, and it
\* is the validity of the final ParsedMetadata.
C10_FlagFromMetadata ==
  (req.pc = "done" /\ req.body.isRecord) =>
    /\ req.body.metadataFetched <=>
         (NonBlank(req.body.title) \/ NonBlank(req.body.description)
            \/ NonBlank(req.body.image))
    /\ req.body.metadataFetched = isValidMetadata(req.md)

C10_Witness ==
  /\ req.pc = "done" /\ req.body.isRecord
  /\ req.md.title = <<" ">>
  /\ ~req.body.metadataFetched

\* strategies of an extractor chain other than its last, the default scraper
NonFinalVia == {"html", "json", "url", "oembed", "merge"}

\* C11: in every platform extractor chain the result of a non-final strategy
\* is returned to the caller only if its title, description or image is
\* non-empty after trimming.
C11_NonFinalResultsAreValid ==
  (req.extReturned /\ req.via \in NonFinalVia) => isValidMetadata(req.extMd)

\* extract() is running its own default-scraper fallback
InExtractFallback(r) ==
  r.pc = "net" /\ r.op.kind = "page" /\ r.op.site \in {"ext_try", "ext_catch"}

\* the platform HTML scrape of r answered with valid metadata
HtmlWasValid(r) ==
  /\ upstream["html"][r.url] \notin {"unset", "hang"}
  /\ platformHtml(r.ext, r.url, upstream["html"][r.url]).ok
  /\ isValidMetadata(platformHtml(r.ext, r.url, upstream["html"][r.url]).md)

ScrapeThenInfer == {"instagram", "facebook", "flipkart", "blinkit", "swiggy"}

MatchingEntries(u) ==
  {i \in 1..Len(platformPatterns) : PatternMatches(i, extractHostname(u))}

\* the platform of the first matching entry in table order
FirstMatchingPlatform(u) ==
  platformPatterns[CHOOSE i \in MatchingEntries(u) :
                     \A k \in MatchingEntries(u) : i <= k].platform

\* the hostname of u matches the swiggy entry
SwiggyHost(u) ==
  \E i \in MatchingEntries(u) : platformPatterns[i].platform = "swiggy"

\* C13: detectPlatform returns instamart exactly when the hostname matches
\* the swiggy entry and the URL path contains /instamart/, swiggy for every
\* other swiggy-hostname URL, and otherwise the first platform in table order
\* whose pattern matches, or none.
C13_DetectPlatform ==
  req.platform # "unset" =>
    req.platform =
      IF SwiggyHost(req.url)
      THEN (IF PathHasInstamart(req.url) THEN "instamart" ELSE "swiggy")
      ELSE IF MatchingEntries(req.url) = {} THEN "none"
      ELSE FirstMatchingPlatform(req.url)

NetflixHost == <<"n","e","t","f","l","i","x",".","c","o","m">>

\* C14: every URL whose hostname is netflix.com or www.netflix.com is
\* detected as netflix and the registry selects the blocked extractor for it.
C14_NetflixUsesBlocked ==
  (req.platform # "unset" /\ extractHostname(req.url) = NetflixHost) =>
    (req.platform = "netflix" /\ req.ext = "blocked")

\* C15: getExtractorForUrl returns the extractor registered for the detected
\* platform when that extractor's canHandle(url) is true, and the default
\* extractor when no platform is detected, none is registered for it or
\* canHandle disagrees; the extractor returned always satisfies canHandle(url).
C15_ExtractorCanHandle ==
  req.platform # "unset" =>
    /\ canHandle(req.ext, req.url)
    /\ (req.platform = "none" \/ req.platform \notin DOMAIN Registered) =>
         req.ext = "default"
    /\ req.ext # "default" =>
         (req.platform \in DOMAIN Registered /\ req.ext = Registered[req.platform])
    /\ (req.platform \in DOMAIN Registered
          /\ canHandle(Registered[req.platform], req.url)) =>
         req.ext = Registered[req.platform]

C15_Witness ==
  req.platform = "instamart" /\ req.ext = "swiggy" /\ canHandle("swiggy", req.url)

\* C16: BlockedExtractor.extract never raises and always gives back metadata
\* with a non-empty title, also when its HTML fetch fails or returns
\* unusable content (ExtractSpec).
C16_BlockedAlwaysLabels ==
  (req.direct /\ req.ext = "blocked" /\ req.pc = "returned") =>
    /\ req.extRaised = "no"
    /\ req.extReturned
    /\ Truthy(req.extMd.title)

\* C17: a request whose url parameter is missing, empty or blank, a bare
\* string, or of a scheme other than http(s) is answered 400 with an error
\* body, and no cache access, extraction or network fetch is made for it
\* (InputSpec).
InvalidKinds == {"missing", "empty", "blank", "bare", "hostport", "ftp"}

C17_InvalidInputRejected ==
  req.raw \in InvalidKinds =>
    /\ req.pc = "done"
    /\ req.status = 400
    /\ ~req.body.isRecord /\ Truthy(req.body.error)
    /\ req.lookups = 0 /\ req.cacheErrors = 0
    /\ req.ext = "none" /\ ~req.extReturned
    /\ ~AnyAttempt(req)

C17_Witness ==
  /\ req.raw = "ftp" /\ req.pc = "done" /\ req.status = 400
  /\ served = 2 /\ req.firstReply[1] = 200

\* C19: cache round trip.  When setCachedMetadata(u, v) has stored v and
\* getCachedMetadata(u) is answered while Redis still holds what that set
\* left (no expiry, no write in between), the value returned equals v, for
\* every v, null fields included (CacheSpec).
C19_CacheRoundTrip ==
  (call.op = "get" /\ call.pc = "returned" /\ ~call.failed
     /\ call.put /\ call.seen = call.after) =>
    call.value = call.wrote

C19_Witness ==
  /\ call.op = "get" /\ call.pc = "returned" /\ ~call.failed
  /\ call.put /\ call.seen = call.after
  /\ call.wrote = Md(Null, Null, Null, UrlText(target))
  /\ call.value = call.wrote

\* C20: for the Reddit post URL /r/test/comments/1/title/, whenever the HTML
\* scrape yields the generic landing title, the title the extractor returns
\* is the JSON-API-derived or the URL-path-derived one, never the generic
\* landing title.
C20_GenericTitleReplaced ==
  (req.ext = "reddit" /\ req.url = "rdpost" /\ req.extReturned
     /\ upstream["html"]["rdpost"] \in GenericOutcomes) =>
    /\ req.extMd.title \in {parseRedditPost("rdpost", "ok_post").title,
                            extractFromUrl("reddit", "rdpost").title}
    /\ req.extMd.title # GenericRedditTitle

\* The request for u run alone, start to finish, with no cache, against the
\* upstream as it has shown itself (the same steps, taken one after another).
SoloStep(r) ==
  LET o == upstream[r.op.kind][r.url]
  IN CASE r.op.kind = "page" -> AfterScrape(r, scrapeMetadata(r.url, o), FALSE)
       [] r.op.kind = "html" -> AfterHtml(r, platformHtml(r.ext, r.url, o), FALSE)
       [] r.op.kind = "oembed" -> AfterOEmbed(r, oembedCall(r.url, o), FALSE)
       [] OTHER -> AfterJson(r, redditJson(r.url, o), FALSE)

SoloStuck(r) ==
  LET o == upstream[r.op.kind][r.url]
  IN o = "unset" \/ o = "body_stall" \/ (o = "hang" /\ r.op.kind # "page")

MaxSteps == 6

RECURSIVE SoloRun(_, _)
SoloRun(r, n) ==
  IF r.pc # "net" \/ n = 0 \/ SoloStuck(r) THEN r
  ELSE SoloRun(SoloStep(r), n - 1)

SoloReply(u) ==
  LET r == SoloRun(fetchMetadataStart([IdleReq EXCEPT !.url = u], FALSE), MaxSteps)
  IN <<r.pc, r.status, r.body>>

BothSlots == {Park(req), req.parked}

\* C18: concurrent requests do not interfere.  Under every interleaving of
\* the requests at their awaits, for the same or for different URLs, each
\* reply is the reply the request gives when run alone against the same
\* upstream; and when two requests for one URL both missed the cache and
\* both extracted, the entry the cache then holds for the URL is the
\* metadata one of them extracted (ConcSpec).
C18_NoInterference ==
  /\ \A s \in BothSlots :
       s.pc = "done" => <<"done", s.status, s.body>> = SoloReply(s.url)
  /\ \A s \in BothSlots : \A t \in BothSlots :
       (s.pc = "done" /\ t.pc = "done" /\ s.url = t.url
          /\ s.status = 200 /\ t.status = 200 /\ ~s.hit /\ ~t.hit
          /\ store[getCacheKey(s.url)] # Nil) =>
         store[getCacheKey(s.url)] \in {Serialize(s.md), Serialize(t.md)}

C18_Witness ==
  /\ req.pc = "done" /\ req.parked.pc = "done" /\ req.url = req.parked.url
  /\ req.concurrent \/ req.parked.concurrent
  /\ req.lookups = 1 /\ req.parked.lookups = 1 /\ ~req.hit /\ ~req.parked.hit
  /\ req.status = 200 /\ req.parked.status = 200
  /\ req.body.metadataFetched
  /\ store[getCacheKey(req.url)] = Serialize(req.md)

\* C21: for https://www.flipkart.com/p/item?text=I%20love%20this%20Soundbar
\* the extractor pipeline answers, without any network access to the page,
\* a record with title "I love this Soundbar", description null, image null
\* and metadataFetched = true, produced by the URL-parameter strategy.
SoundbarTitle == <<"I", " ", "love", " ", "this", " ", "Soundbar">>

C21_FlipkartTextParam ==
  (impl = "extractors" /\ req.url = "fktext" /\ req.pc \in {"cache_set", "done"}) =>
    /\ req.via = "url" /\ ~AnyAttempt(req)
    /\ req.md = Md(SoundbarTitle, Null, Null, UrlText("fktext"))
    /\ req.pc = "done" =>
         /\ req.status = 200
         /\ req.body.title = SoundbarTitle
         /\ req.body.description = Null /\ req.body.image = Null
         /\ req.body.metadataFetched

C21_Witness ==
  /\ impl = "extractors" /\ req.url = "fktext" /\ req.pc = "done"
  /\ req.via = "url" /\ ~AnyAttempt(req)
  /\ req.body.title = SoundbarTitle /\ req.body.metadataFetched

\* The text sources of a page in the documented order, each with the text
\* it offers ("" when the source is missing or does not qualify).
TitleSources(doc) ==
  << Trim(AttrOrEmpty(OrElse(doc.ogTitle, doc.ogTitleName))),
     Trim(doc.titleTag),
     Trim(FirstText(doc.h1)),
     Trim(AttrOrEmpty(doc.metaTitle)) >>
    \o [l \in 1..5 |-> Trim(FirstText(doc.headings[l + 1]))]

QualifyingParagraphs(doc, areas) ==
  {i \in 1..Len(doc.paragraphs) :
     /\ doc.paragraphs[i].area \in areas
     /\ CharLen(Trim(doc.paragraphs[i].text)) >= 50
     /\ ~isNavText(Trim(doc.paragraphs[i].text))}

PreferredParagraph(doc) ==
  LET inMain == QualifyingParagraphs(doc, {"main"})
      inArticle == QualifyingParagraphs(doc, {"article"})
      inSection == QualifyingParagraphs(doc, {"section"})
      inBody == QualifyingParagraphs(doc, {"body"})
      anywhere == QualifyingParagraphs(doc, {"main", "article", "section", "body", "other"})
      pick == IF inMain # {} THEN inMain
              ELSE IF inArticle # {} THEN inArticle
              ELSE IF inSection # {} THEN inSection
              ELSE IF inBody # {} THEN inBody ELSE anywhere
  IN IF pick = {} THEN <<>>
     ELSE Trim(doc.paragraphs[CHOOSE i \in pick : \A k \in pick : i <= k].text)

LongAria(doc) ==
  LET ok == {i \in 1..Len(doc.aria) : CharLen(Trim(AttrOrEmpty(doc.aria[i]))) >= 30}
  IN IF ok = {} THEN <<>> ELSE Trim(doc.aria[CHOOSE i \in ok : \A k \in ok : i <= k])

DescriptionSources(doc) ==
  << Trim(AttrOrEmpty(OrElse(doc.ogDesc, doc.ogDescName))),
     Trim(AttrOrEmpty(doc.metaDesc)),
     PreferredParagraph(doc),
     Trim(AttrOrEmpty(doc.keywords)),
     IF CharLen(Trim(doc.titleTag)) >= 20 THEN Trim(doc.titleTag) ELSE <<>>,
     LongAria(doc) >>

\* the field must be the first non-empty source, cleaned of extra white
\* space; null when every source is empty
TakesFirstSource(field, sources) ==
  IF \A i \in 1..Len(sources) : sources[i] = <<>> THEN field = Null
  ELSE \E i \in 1..Len(sources) :
         /\ sources[i] # <<>>
         /\ \A k \in 1..(i - 1) : sources[k] = <<>>
         /\ field = sanitizeText(sources[i])

LogoLike(img) ==
  \/ isLikelyLogo([img EXCEPT !.width = 0, !.height = 0])
  \/ (img.width > 0 /\ img.width < 200)
  \/ (img.height > 0 /\ img.height < 200)

\* C23: the body-image fallback never returns an <img> that is logo-like by
\* keyword, by file name, by a header/footer/nav ancestor or by a declared
\* width or height below 200px, whatever its size and even if it is the
\* only image; a page with only such images has image = null (ParseSpec).
C23_LogosNeverChosen ==
  (call.op = "parse" /\ ~Truthy(Trim(AttrOrEmpty(call.doc.ogImage)))) =>
    /\ BestImage(call.doc) # 0 => ~LogoLike(call.doc.images[BestImage(call.doc)])
    /\ (\A i \in 1..Len(call.doc.images) : LogoLike(call.doc.images[i])) =>
         call.md.image = Null

\* a page whose only metadata is <meta property="og:title" content="T">
OnlyOgTitle(doc) ==
  /\ doc = [EmptyDoc EXCEPT !.ogTitle = doc.ogTitle]
  /\ Truthy(doc.ogTitle) /\ Truthy(Trim(doc.ogTitle))

\* C24 as stated: for a page whose only metadata is og:title = T, parse
\* returns title T and description, image and url all null (ParseSpec).
C24_OnlyTitleRestNull ==
  (call.op = "parse" /\ OnlyOgTitle(call.doc)) =>
    call.md = Md(sanitizeText(call.doc.ogTitle), Null, Null, Null)

\* C24 amended: for such a page parse returns title T (trimmed, runs of
\* white space collapsed), description and image null, and url equal to
\* the base URL.
C24_OnlyTitleUrlIsBase ==
  (call.op = "parse" /\ OnlyOgTitle(call.doc)) =>
    call.md = Md(sanitizeText(call.doc.ogTitle), Null, Null, UrlText(target))

C24_Witness ==
  /\ call.op = "parse" /\ OnlyOgTitle(call.doc)
  /\ call.doc.ogTitle = <<"T">>
  /\ call.md = Md(<<"T">>, Null, Null, UrlText(target))

\* an absolute URL: a scheme followed by at least a host, or one of the
\* request URLs themselves
IsAbsolute(s) ==
  \/ s \in {UrlText(u) : u \in URLs}
  \/ (Len(s) >= 2 /\ s[1] \in Schemes)

\* C25: whenever the metadata returned by parse has a non-null image or
\* url, that value is an absolute URL and never a relative path, for any
\* document (relative og:image, og:url or img src included) and any valid
\* base URL (ParseSpec).
C25_ImageAndUrlAbsolute ==
  call.op = "parse" =>
    /\ call.md.image # Null => IsAbsolute(call.md.image)
    /\ call.md.url # Null => IsAbsolute(call.md.url)

\* the categories detectLinkTag returns and the labels callers put in place
\* of a missing tag
Categories ==
  { <<"s","h","o","p","p","i","n","g">>, <<"n","e","w","s">>,
    <<"s","o","c","i","a","l">>, <<"v","i","d","e","o">>, <<"t","e","c","h">> }

DefaultLabels == { <<"untitled">>, <<"Untitled">>, <<"general">> }

\* C26: tag detection is two-tier: whenever the URL's hostname matches an
\* entry of the curated hostname table the tag is that entry's canonical
\* tag, whatever the title and description; only when no entry matches is
\* it one of the categories shopping, news, social, video, tech, and when
\* nothing matches it is the caller's default label.
C26_TwoTierTag ==
  (req.pc = "done" /\ req.body.isRecord /\ req.body.metadataFetched) =>
    IF hostnameTag(req.url) # <<>>
    THEN req.body.tag = hostnameTag(req.url)
    ELSE req.body.tag \in Categories \cup DefaultLabels

\* C27: normalizeUrl is idempotent: for every input it accepts, applying
\* it to its own result succeeds and returns that result again (InputSpec,
\* for the parameter of the request being served).
C27_NormalizeIdempotent ==
  \A x \in RawInputs(target) :
    (req.pc # "idle" /\ req.raw = x.kind /\ ~normalizeUrl(x).raised) =>
      /\ ~normalizeUrl(normalizeUrl(x).text).raised
      /\ normalizeUrl(normalizeUrl(x).text) = normalizeUrl(x)

C27_Witness ==
  \E x \in RawInputs(target) :
    /\ req.pc = "done" /\ req.status = 200 /\ req.raw = x.kind
    /\ x.pad /\ ~normalizeUrl(x).raised
    /\ normalizeUrl(x).text # x
    /\ normalizeUrl(normalizeUrl(x).text).text = normalizeUrl(x).text

\* C28: every cache entry written by fetchMetadata holds metadata that
\* passes the validity check (a non-blank title, description or image) and
\* nothing is written when extraction raised; an all-empty result is never
\* cached, so a cache hit never gives a reply with metadataFetched = false.
C28_OnlyValidCached ==
  /\ \A k \in CacheKeys :
       store[k] # Nil => isValidMetadata(Deserialize(store[k]))
  /\ (req.pc = "done" /\ req.hit) => req.body.metadataFetched
  /\ (TotalFailure(req) /\ served = 1) => store = [k \in CacheKeys |-> Nil]

\* ------------------------------------------------------------------ client storage
\* The app's storage services over AsyncStorage (StorageSpec).  "store"
\* holds the two AsyncStorage items, parsed: linksmash_links and
\* linksmash_folders; "call" holds one storage call per caller.  Every
\* await of an AsyncStorage call is a step of its own, at which another
\* caller may run; the call takes effect when it resolves.
MaxCallers == 2

Callers == 1..MaxCallers

\* a stored link: folderId is "undefined" on links saved before folders
\* existed
Link(url, fetched, folderId) ==
  [url |-> url, metadataFetched |-> fetched, folderId |-> folderId]

\* getLinks after JSON.parse: folderId: link.folderId ?? null
getLinks(links) ==
  [i \in 1..Len(links) |->
     [links[i] EXCEPT !.folderId = IF @ = "undefined" THEN "null" ELSE @]]

\* findIndex(link => link.url === url), 0 for -1
findIndex(links, url) ==
  IF \E i \in 1..Len(links) : links[i].url = url
  THEN CHOOSE i \in 1..Len(links) :
         links[i].url = url /\ \A k \in 1..(i - 1) : links[k].url # url
  ELSE 0

\* array.splice(index, 1)
Splice(arr, index) ==
  SubSeq(arr, 1, index - 1) \o SubSeq(arr, index + 1, Len(arr))

\* saveLink between its getItem and its setItem
saveLink(links, linkData) == Append(getLinks(links), linkData)

\* updateLink between getLinks and setItem, with the fields LinkCard sends
\* (0 links: "Link not found")
updateLink(links, url) ==
  LET existingLinks == getLinks(links)
      index == findIndex(existingLinks, url)
  IN IF index = 0 THEN [found |-> FALSE, links |-> existingLinks]
     ELSE [found |-> TRUE,
           links |-> [existingLinks EXCEPT ![index].metadataFetched = TRUE]]

\* deleteLink between getLinks and setItem
deleteLink(links, url) ==
  LET existingLinks == getLinks(links)
      index == findIndex(existingLinks, url)
  IN IF index = 0 THEN [found |-> FALSE, links |-> existingLinks]
     ELSE [found |-> TRUE, links |-> Splice(existingLinks, index)]

\* deleteFolder between getFolders and setItem
deleteFolder(folders, id) ==
  LET index == IF \E i \in 1..Len(folders) : folders[i] = id
               THEN CHOOSE i \in 1..Len(folders) : folders[i] = id
               ELSE 0
  IN IF index = 0 THEN [found |-> FALSE, folders |-> folders]
     ELSE [found |-> TRUE, folders |-> Splice(folders, index)]

\* a caller's storage call (before: the links when the call was made;
\* overlap: another call was in flight at some point of this one)
NoStorageCall ==
  [pc |-> "idle", op |-> "none", url |-> "none", folder |-> "none",
   key |-> "none", pending |-> <<>>, read |-> <<>>, ok |-> FALSE,
   before |-> <<>>, overlap |-> FALSE]

\* a caller calls a storage function, which runs to its first await (every
\* call in flight is marked as overlapping when a second one is)
StorageBegin(c, o) ==
  /\ call[c].pc = "idle"
  /\ LET calls == [call EXCEPT ![c] =
                    [NoStorageCall EXCEPT
                       !.pc = IF o.op = "deleteFolder" THEN "getFolders" ELSE "getItem",
                       !.op = o.op, !.url = o.url, !.folder = o.folder,
                       !.before = store.links]]
     IN call' = [d \in Callers |->
                   IF /\ calls[d].pc \notin {"idle", "done"}
                      /\ \E e \in Callers \ {d} : calls[e].pc \notin {"idle", "done"}
                   THEN [calls[d] EXCEPT !.overlap = TRUE] ELSE calls[d]]
  /\ UNCHANGED <<impl, redis, store, upstream, req, served, target>>

\* AsyncStorage.getItem(linksmash_links) resolves in saveLink, updateLink
\* or deleteLink, which runs on to its setItem or throws
LinksGetReturn(c) ==
  /\ call[c].pc = "getItem"
  /\ LET res == CASE call[c].op = "saveLink" ->
                       [found |-> TRUE,
                        links |-> saveLink(store.links,
                                           Link(call[c].url, FALSE, "null"))]
                  [] call[c].op = "updateLink" -> updateLink(store.links, call[c].url)
                  [] OTHER -> deleteLink(store.links, call[c].url)
     IN call' = [call EXCEPT ![c] =
                   IF res.found
                   THEN [@ EXCEPT !.pc = "setItem", !.key = "links",
                                  !.pending = res.links]
                   ELSE [@ EXCEPT !.pc = "done", !.ok = FALSE]]
  /\ UNCHANGED <<impl, redis, store, upstream, req, served, target>>

\* getFolders inside deleteFolder: getItem(linksmash_folders) resolves and
\* getFolders goes on to getLinks
FoldersGetReturn(c) ==
  /\ call[c].pc = "getFolders"
  /\ call' = [call EXCEPT ![c] = [@ EXCEPT !.pc = "getLinks",
                                           !.read = store.folders]]
  /\ UNCHANGED <<impl, redis, store, upstream, req, served, target>>

\* getLinks inside getFolders resolves (the links only give linkCount);
\* deleteFolder removes the folder from the list and calls setItem
FolderLinksReturn(c) ==
  /\ call[c].pc = "getLinks"
  /\ LET res == deleteFolder(call[c].read, call[c].folder)
     IN call' = [call EXCEPT ![c] =
                   IF res.found
                   THEN [@ EXCEPT !.pc = "setItem", !.key = "folders",
                                  !.pending = res.folders]
                   ELSE [@ EXCEPT !.pc = "done", !.ok = FALSE]]
  /\ UNCHANGED <<impl, redis, store, upstream, req, served, target>>

\* AsyncStorage.setItem resolves: the item is replaced and the call returns
SetItemReturn(c) ==
  /\ call[c].pc = "setItem"
  /\ store' = [store EXCEPT ![call[c].key] = call[c].pending]
  /\ call' = [call EXCEPT ![c] = [@ EXCEPT !.pc = "done", !.ok = TRUE]]
  /\ UNCHANGED <<impl, redis, upstream, req, served, target>>

\* the calls the screens make: LinkCard's updateLink, a share's saveLink,
\* a swipe's deleteLink, FoldersScreen's deleteFolder
StorageNext ==
  \/ \E c \in Callers :
       \E o \in { [op |-> "updateLink", url |-> u, folder |-> "none"] : u \in {"yt", "ex"} }
                 \cup { [op |-> "deleteLink", url |-> "ex", folder |-> "none"],
                        [op |-> "saveLink", url |-> "nf", folder |-> "none"],
                        [op |-> "deleteFolder", url |-> "none", folder |-> "f1"] } :
         StorageBegin(c, o)
  \/ \E c \in Callers : LinksGetReturn(c)
  \/ \E c \in Callers : FoldersGetReturn(c)
  \/ \E c \in Callers : FolderLinksReturn(c)
  \/ \E c \in Callers : SetItemReturn(c)

StorageInit ==
  /\ impl = "scrape"
  /\ redis = "null"
  /\ store \in { [links |-> << Link("yt", FALSE, f), Link("ex", FALSE, "undefined") >>,
                  folders |-> <<"f1", "f2">>] : f \in {"f1", "null"} }
  /\ upstream = [k \in OpKinds |-> [u \in URLs |-> "unset"]]
  /\ req = IdleReq
  /\ served = 0
  /\ target = "ex"
  /\ call = [c \in Callers |-> NoStorageCall]

StorageSpec == StorageInit /\ [][StorageNext]_vars

\* what a resolved call asked for is in the stored links
Reflected(c) ==
  CASE call[c].op = "updateLink" ->
         \E i \in 1..Len(store.links) :
           store.links[i].url = call[c].url /\ store.links[i].metadataFetched
    [] call[c].op = "saveLink" ->
         \E i \in 1..Len(store.links) : store.links[i].url = call[c].url
    [] call[c].op = "deleteLink" ->
         \A i \in 1..Len(store.links) : store.links[i].url # call[c].url
    [] OTHER -> TRUE

\* link calls on different URLs
LinkCalls == {c \in Callers : call[c].op \in {"updateLink", "saveLink", "deleteLink"}}

DifferentUrls ==
  \A c, d \in LinkCalls : c # d => call[c].url # call[d].url

\* C29: link-storage writes are not lost under interleaving: when several
\* saveLink, updateLink or deleteLink calls for different URLs overlap,
\* then after all of them have resolved successfully the stored link list
\* reflects every one of them.
C29_NoLostWrites ==
  (/\ \A c \in Callers : call[c].pc \in {"idle", "done"}
   /\ \A c \in LinkCalls : call[c].pc = "done" /\ call[c].ok
   /\ DifferentUrls) =>
    \A c \in LinkCalls : Reflected(c)

\* C30: after deleteFolder(id) has completed successfully, no link has been
\* deleted and no stored link still refers to the deleted folder: every link
\* that had folderId = id has folderId = null (no other call running).
C30_FolderDeleteOrphansLinks ==
  \A c \in Callers :
    (/\ call[c].op = "deleteFolder" /\ call[c].pc = "done" /\ call[c].ok
     /\ \A d \in Callers \ {c} : call[d].pc = "idle") =>
      /\ Len(store.links) = Len(call[c].before)
      /\ \A i \in 1..Len(store.links) :
           /\ store.links[i].url = call[c].before[i].url
           /\ store.links[i].folderId # call[c].folder
           /\ call[c].before[i].folderId = call[c].folder =>
                store.links[i].folderId = "null"

====
